---- MODULE Spec2Model ----
(***************************************************************************)
(* Notification delivery pipeline of the camera SMS relay.                 *)
(*                                                                         *)
(*   src/twilio_camera_relay.py        RateLimiter, NotificationBatcher    *)
(*   src/camera-notification-bridge/src/sms_gateway.py  SMSGatewayManager  *)
(*                                                                         *)
(* Three specifications share the module:                                  *)
(*   Spec    the batcher: request threads calling add_notification, the    *)
(*           background _process_batches thread, stop(), the clock;        *)
(*   SpecRL  the RateLimiter driven directly through can_send/record_sent; *)
(*   SpecGW  SMSGatewayManager.__init__ and send_sms.                      *)
(***************************************************************************)
EXTENDS Integers, Sequences, FiniteSets, TLC

(***************************************************************************)
(* Bounds of the model and scaled configuration values.                    *)
(***************************************************************************)
MaxTime == 3
MaxBatchTime == 4
MaxEvents == 2
MaxBatchEvents == 5
MaxRecords == 3
MaxCalls == 2
MaxRetry == 3
MaxClock == 5
MaxProcess == 1
MaxStats == 1

\* time.sleep(10) of the scheduler, in clock units
TickLen == 1
\* timedelta(hours=1), in clock units
HourLen == 3
\* notifications.batching.window_seconds, in clock units
window_seconds == 2
\* notifications.batching.max_batch_size
max_batch_size == 2
\* notifications.rate_limiting.max_per_hour / max_per_camera_per_hour
LimHour == 2
LimCam == 1

\* message[:1600]
BodyLimit == 1600
\* lengths of the messages handed to a sender
MsgLens == {0, 1599, 1600, 1601}

Recipients == {"r1", "r2"}
Cameras == {"c1", "c2"}
Keys == Recipients \X Cameras
Threads == {"t1", "t2"}

NoTime == -1
NoKey == <<"none", "none">>
NoEvent == [id |-> 0, ts_ok |-> TRUE]

VARIABLES
  now,               \* datetime.now()
  wl,                \* the workload: calls, keys, timestamps, threads, clock horizon
  batching_enabled,  \* notifications.batching.enabled
  template_ok,       \* notifications.message_format has only known placeholders
  rl_cfg,            \* notifications.rate_limiting
  sent_messages,     \* RateLimiter.sent_messages[recipient]
  camera_messages,   \* RateLimiter.camera_messages[recipient][camera]
  pending,           \* NotificationBatcher.pending[key]
  key_order,         \* insertion order of the keys of the pending dict
  first_event_time,  \* NotificationBatcher.first_event_time
  lock,              \* holder of NotificationBatcher.lock
  running,           \* NotificationBatcher.running
  sched_pc, sched_wake, sched_now, sched_keys, sched_key, sched_msg, sched_res,
  req_pc, req_key, req_event,
  stop_pc,
  next_id,           \* events handed to add_notification so far
  sent_log,          \* every call of sender.send_sms that returned
  recorded,          \* every record_sent call, never pruned
  denied_ev,         \* ids of events whose delivery can_send denied
  tick_start,        \* len(pending[k]), first_event_time and now when the tick began
  tick_attempted,    \* keys _send_batch was called for in this tick
  tick_denied,       \* batches can_send denied in this tick
  prev_denied,       \* batches can_send denied in the tick before
  rl_result,         \* last value returned by can_send in SpecRL
  gw_gateways,       \* SMSGatewayManager.gateways
  gw_email,          \* SMSGatewayManager.email_gateway is set
  gw_carrier,        \* the carrier argument of send_sms is given
  gw_pc, gw_idx,     \* position of send_sms
  gw_invoked,        \* channels invoked by the current send_sms, with outcomes
  gw_result,         \* what send_sms returned
  gw_calls,          \* send_sms calls so far
  gw_msg,            \* len(message) of the current send_sms call
  gw_bodies,         \* len(body) of every messages.create of TwilioGateway
  tw_client,         \* TwilioSender.client is set
  tw_retry,          \* twilio.retry_attempts
  tw_pc, tw_attempt, \* position of TwilioSender.send_sms, its loop variable
  tw_msg,            \* len(message) of the current TwilioSender.send_sms call
  tw_trace,          \* messages.create calls and sleeps of the current call
  tw_result,         \* what TwilioSender.send_sms returned
  tw_calls,          \* TwilioSender.send_sms calls so far
  nz_payload,        \* the data argument of _normalize_event
  nz_pc,             \* _normalize_event was called or not yet
  nz_event,          \* what _normalize_event returned, or that it raised
  qh_cfg,            \* notifications.quiet_hours of the configuration
  rc_list,           \* recipients of the configuration
  pe_pc,             \* position of process_event
  pe_stage,          \* the last step process_event entered
  pe_tod,            \* datetime.now().time() read by _in_quiet_hours
  pe_quiet,          \* what _in_quiet_hours returned, or that it raised
  pe_recipients,     \* what _get_recipients_for_camera returned
  pe_calls,          \* numbers passed to add_notification by this call
  pe_fault,          \* the step of this call that raised, if any
  pe_result,         \* what process_event returned
  pe_runs,           \* process_event calls so far
  st_pc,             \* position of get_stats
  st_todo,           \* recipients get_stats has still to report
  st_sent,           \* 'sent_last_hour' of the recipients reported so far
  st_idx, st_size,   \* the iterator over batcher.pending.values(): position, dict size
  st_total,          \* the running sum of 'pending_notifications'
  st_result,         \* how get_stats ended
  st_reads,          \* every read get_stats made, with the holder of the guarding lock
  st_calls           \* get_stats calls so far

cfg_vars == <<wl, batching_enabled, template_ok, rl_cfg>>
rl_vars == <<sent_messages, camera_messages, recorded>>
batch_vars == <<pending, key_order, first_event_time>>
sched_vars == <<sched_pc, sched_wake, sched_now, sched_keys, sched_key, sched_msg, sched_res>>
req_vars == <<req_pc, req_key, req_event, next_id>>
tick_vars == <<tick_start, tick_attempted, tick_denied, prev_denied>>
rlu_vars == <<rl_result>>
gw_vars == <<gw_gateways, gw_email, gw_carrier, gw_pc, gw_idx, gw_invoked, gw_result,
            gw_calls, gw_msg, gw_bodies>>
tw_vars == <<tw_client, tw_retry, tw_pc, tw_attempt, tw_msg, tw_trace, tw_result, tw_calls>>
nz_vars == <<nz_payload, nz_pc, nz_event>>
pe_vars == <<qh_cfg, rc_list, pe_pc, pe_stage, pe_tod, pe_quiet, pe_recipients, pe_calls,
            pe_fault, pe_result, pe_runs>>
st_vars == <<st_pc, st_todo, st_sent, st_idx, st_size, st_total, st_result, st_reads,
            st_calls>>
unit_vars == <<tw_vars, nz_vars, pe_vars, st_vars>>

vars == <<now, cfg_vars, rl_vars, batch_vars, lock, running, sched_vars, req_vars,
          stop_pc, sent_log, denied_ev, tick_vars, rlu_vars, gw_vars, unit_vars>>

(***************************************************************************)
(* Helpers on sequences.                                                   *)
(***************************************************************************)
RECURSIVE Remove(_, _)
Remove(s, x) ==
  IF s = <<>> THEN <<>>
  ELSE IF Head(s) = x THEN Remove(Tail(s), x)
       ELSE <<Head(s)>> \o Remove(Tail(s), x)

\* events[-n:]
LastN(s, n) == IF Len(s) <= n THEN s ELSE SubSeq(s, Len(s) - n + 1, Len(s))

Range(s) == {s[i] : i \in 1..Len(s)}

(***************************************************************************)
(* RateLimiter (twilio_camera_relay.py:202-248).  Both methods run under   *)
(* RateLimiter.lock, so each is one atomic step.                           *)
(***************************************************************************)
\* the filter "ts > hour_ago" of can_send
Fresh(ts, t) == ts > t - HourLen

RECURSIVE CleanOld(_, _)
\* [ts for ts in s if ts > hour_ago]
CleanOld(s, t) ==
  IF s = <<>> THEN <<>>
  ELSE IF Fresh(Head(s), t) THEN <<Head(s)>> \o CleanOld(Tail(s), t)
       ELSE CleanOld(Tail(s), t)

\* a limiter that tests the recipient's ceiling only
UnderLimits_RecipientOnly(nRecipient, nCamera, cfg) ==
  ~(nRecipient >= cfg.max_per_hour)

\* the two ceiling tests of can_send on the cleaned lists
UnderLimits(nRecipient, nCamera, cfg) ==
  /\ ~(nRecipient >= cfg.max_per_hour)
  /\ ~(nCamera >= cfg.max_per_camera_per_hour)

\* value returned by can_send(recipient, camera_id, config)
CanSendResult(r, c) ==
  IF ~rl_cfg.enabled THEN TRUE
  ELSE UnderLimits(Len(CleanOld(sent_messages[r], now)),
                   Len(CleanOld(camera_messages[<<r, c>>], now)), rl_cfg)

\* state change of can_send: the lazy clean-up of the two lists it reads
CanSendEffect(r, c) ==
  IF ~rl_cfg.enabled
  THEN UNCHANGED <<sent_messages, camera_messages>>
  ELSE /\ sent_messages' = [sent_messages EXCEPT ![r] = CleanOld(@, now)]
       /\ camera_messages' = [camera_messages EXCEPT ![<<r, c>>] = CleanOld(@, now)]

\* a record_sent that charges one unit per camera list of the recipient
RecordSent_EveryCamera(r, c) ==
  /\ sent_messages' = [sent_messages EXCEPT ![r] = Append(@, now)]
  /\ camera_messages' = [k \in Keys |-> IF k[1] = r THEN Append(camera_messages[k], now)
                                        ELSE camera_messages[k]]
  /\ recorded' = [recorded EXCEPT ![<<r, c>>] = Append(@, now)]

\* record_sent(recipient, camera_id)
RecordSent(r, c) ==
  /\ sent_messages' = [sent_messages EXCEPT ![r] = Append(@, now)]
  /\ camera_messages' = [camera_messages EXCEPT ![<<r, c>>] = Append(@, now)]
  /\ recorded' = [recorded EXCEPT ![<<r, c>>] = Append(@, now)]

(***************************************************************************)
(* NotificationBatcher._format_message (350-372).                          *)
(***************************************************************************)
\* template.format(...) raises KeyError on an unknown placeholder; in a
\* multi-event batch .strftime is called on the 'timestamp' of each of the
\* last three events and raises AttributeError when it is not a datetime.
FormatRaises(events) ==
  IF Len(events) = 1 THEN ~template_ok
  ELSE \E i \in 1..Len(LastN(events, 3)) : ~LastN(events, 3)[i].ts_ok

\* a batch message that lists the first three events
FormatMessage_FirstThree(events) ==
  IF Len(events) = 1
  THEN [form |-> "single", count |-> 1, lines |-> <<events[1].id>>]
  ELSE [form |-> "batch", count |-> Len(events),
        lines |-> [i \in 1..(IF Len(events) < 3 THEN Len(events) ELSE 3) |-> events[i].id]]

\* the message: the template it is built from (the single-event template
\* or the header with event lines), the count of the header and the ids
\* of the listed events
FormatMessage(events) ==
  IF Len(events) = 1
  THEN [form |-> "single", count |-> 1, lines |-> <<events[1].id>>]
  ELSE [form |-> "batch", count |-> Len(events),
        lines |-> [i \in 1..Len(LastN(events, 3)) |-> LastN(events, 3)[i].id]]

NoMsg == [form |-> "none", count |-> 0, lines |-> <<>>]

Ids(events) == [i \in 1..Len(events) |-> events[i].id]

(***************************************************************************)
(* The clock.                                                              *)
(***************************************************************************)
Advance ==
  /\ now < wl.until
  /\ now' = now + 1
  /\ UNCHANGED <<cfg_vars, rl_vars, batch_vars, lock, running, sched_vars, req_vars,
                 stop_pc, sent_log, denied_ev, tick_vars, rlu_vars, gw_vars, unit_vars>>

(***************************************************************************)
(* NotificationBatcher.add_notification (268-286) and _send_immediate      *)
(* (288-296), one request thread t.                                        *)
(***************************************************************************)
\* entry: the batching.enabled test decides between the two paths
AddNotificationCall(t, r, c, ts_ok) ==
  /\ req_pc[t] = "idle"
  /\ t \in wl.threads
  /\ <<r, c>> \in wl.keys
  /\ ts_ok \in wl.stamps[c]
  /\ next_id <= wl.events
  /\ req_key' = [req_key EXCEPT ![t] = <<r, c>>]
  /\ req_event' = [req_event EXCEPT ![t] = [id |-> next_id, ts_ok |-> ts_ok]]
  /\ next_id' = next_id + 1
  /\ req_pc' = [req_pc EXCEPT ![t] = IF batching_enabled THEN "lock" ELSE "imm_can_send"]
  /\ UNCHANGED <<now, cfg_vars, rl_vars, batch_vars, lock, running, sched_vars,
                 stop_pc, sent_log, denied_ev, tick_vars, rlu_vars, gw_vars>>

\* add_notification called by a request thread of the workload
AddNotification(t, r, c, ts_ok) ==
  /\ AddNotificationCall(t, r, c, ts_ok)
  /\ UNCHANGED unit_vars

\* a lock that is granted whoever holds it
CanAcquire_Always(holder) == TRUE

\* threading.Lock: acquire returns when nobody holds the lock
CanAcquire(holder) == holder = "free"

\* with self.lock:
AddAcquire(t) ==
  /\ req_pc[t] = "lock"
  /\ CanAcquire(lock)
  /\ lock' = t
  /\ req_pc' = [req_pc EXCEPT ![t] = "set_first"]
  /\ UNCHANGED <<now, cfg_vars, rl_vars, batch_vars, running, sched_vars, req_key,
                 req_event, next_id, stop_pc, sent_log, denied_ev, tick_vars,
                 rlu_vars, gw_vars, unit_vars>>

\* an add_notification that restarts the window with every event
FirstEventAfterAdd_Restart(fet, k, t) == [fet EXCEPT ![k] = t]

\* first_event_time after lines 278-279
FirstEventAfterAdd(fet, k, t) ==
  IF fet[k] = NoTime THEN [fet EXCEPT ![k] = t] ELSE fet

\* if key not in self.first_event_time: self.first_event_time[key] = now
AddSetFirst(t) ==
  /\ req_pc[t] = "set_first"
  /\ first_event_time' = FirstEventAfterAdd(first_event_time, req_key[t], now)
  /\ req_pc' = [req_pc EXCEPT ![t] = "append"]
  /\ UNCHANGED <<now, cfg_vars, rl_vars, pending, key_order, lock, running, sched_vars,
                 req_key, req_event, next_id, stop_pc, sent_log, denied_ev, tick_vars,
                 rlu_vars, gw_vars, unit_vars>>

\* self.pending[key].append(...), then the with-block releases the lock.
\* The 'time' field of the appended record is never read and is left out.
AddAppend(t) ==
  /\ req_pc[t] = "append"
  /\ pending' = [pending EXCEPT ![req_key[t]] = Append(@, req_event[t])]
  /\ key_order' = IF pending[req_key[t]] = <<>> THEN Append(key_order, req_key[t])
                  ELSE key_order
  /\ lock' = "free"
  /\ req_pc' = [req_pc EXCEPT ![t] = "idle"]
  /\ UNCHANGED <<now, cfg_vars, rl_vars, first_event_time, running, sched_vars,
                 req_key, req_event, next_id, stop_pc, sent_log, denied_ev, tick_vars,
                 rlu_vars, gw_vars, unit_vars>>

\* where _send_immediate goes after can_send returned admitted
ImmAfterCanSend(admitted, raises) ==
  IF ~admitted THEN "idle" ELSE IF raises THEN "raised" ELSE "imm_send"

\* _send_immediate: the can_send test; on denial it returns, on admission
\* the message is formatted (an exception leaves add_notification)
ImmCanSend(t) ==
  /\ req_pc[t] = "imm_can_send"
  /\ CanSendEffect(req_key[t][1], req_key[t][2])
  /\ req_pc' = [req_pc EXCEPT ![t] =
                  ImmAfterCanSend(CanSendResult(req_key[t][1], req_key[t][2]),
                                  FormatRaises(<<req_event[t]>>))]
  /\ denied_ev' = IF CanSendResult(req_key[t][1], req_key[t][2]) THEN denied_ev
                  ELSE denied_ev \cup {req_event[t].id}
  /\ UNCHANGED <<now, cfg_vars, recorded, batch_vars, lock, running, sched_vars,
                 req_key, req_event, next_id, stop_pc, sent_log, tick_vars,
                 rlu_vars, gw_vars, unit_vars>>

\* the exception of _format_message has left _send_immediate and
\* add_notification and is with the caller of the workload
ImmRaised(t) ==
  /\ req_pc[t] = "raised"
  /\ req_pc' = [req_pc EXCEPT ![t] = "idle"]
  /\ UNCHANGED <<now, cfg_vars, rl_vars, batch_vars, lock, running, sched_vars,
                 req_key, req_event, next_id, stop_pc, sent_log, denied_ev, tick_vars,
                 rlu_vars, gw_vars, unit_vars>>

\* self.sender.send_sms(...) returns ok
ImmSendReturn(t, ok) ==
  /\ req_pc[t] = "imm_send"
  /\ sent_log' = Append(sent_log, [key |-> req_key[t], ids |-> <<req_event[t].id>>,
                                   msg |-> FormatMessage(<<req_event[t]>>),
                                   ok |-> ok, by |-> t])
  /\ req_pc' = [req_pc EXCEPT ![t] = IF ok THEN "imm_record" ELSE "idle"]
  /\ UNCHANGED <<now, cfg_vars, rl_vars, batch_vars, lock, running, sched_vars,
                 req_key, req_event, next_id, stop_pc, denied_ev, tick_vars,
                 rlu_vars, gw_vars, unit_vars>>

\* self.rate_limiter.record_sent(...)
ImmRecord(t) ==
  /\ req_pc[t] = "imm_record"
  /\ RecordSent(req_key[t][1], req_key[t][2])
  /\ req_pc' = [req_pc EXCEPT ![t] = "idle"]
  /\ UNCHANGED <<now, cfg_vars, batch_vars, lock, running, sched_vars,
                 req_key, req_event, next_id, stop_pc, sent_log, denied_ev, tick_vars,
                 rlu_vars, gw_vars, unit_vars>>

(***************************************************************************)
(* NotificationBatcher._process_batches (298-320) and _send_batch          *)
(* (322-348): the background thread.                                       *)
(***************************************************************************)
\* elapsed >= window or len(self.pending[key]) >= max_batch
FlushDue(fet, pend, k, t) ==
  \/ (t - fet[k]) >= window_seconds
  \/ Len(pend[k]) >= max_batch_size

\* time.sleep(10) is over
SchedWake ==
  /\ sched_pc = "sleep"
  /\ now >= sched_wake
  /\ sched_pc' = "lock"
  /\ UNCHANGED <<now, cfg_vars, rl_vars, batch_vars, lock, running, sched_wake,
                 sched_now, sched_keys, sched_key, sched_msg, sched_res, req_vars,
                 stop_pc, sent_log, denied_ev, tick_vars, rlu_vars, gw_vars, unit_vars>>

\* with self.lock: now = datetime.now(); list(self.pending.keys())
SchedAcquire ==
  /\ sched_pc = "lock"
  /\ CanAcquire(lock)
  /\ lock' = "sched"
  /\ sched_now' = now
  /\ sched_keys' = key_order
  /\ sched_pc' = "loop"
  /\ prev_denied' = tick_denied
  /\ tick_denied' = {}
  /\ tick_attempted' = {}
  /\ tick_start' = [len |-> [k \in Keys |-> Len(pending[k])],
                    first |-> first_event_time, now |-> now]
  /\ UNCHANGED <<now, cfg_vars, rl_vars, batch_vars, running, sched_wake,
                 sched_key, sched_msg, sched_res, req_vars,
                 stop_pc, sent_log, denied_ev, rlu_vars, gw_vars, unit_vars>>

\* a loop that never looks at the flag
LoopAfterTick_IgnoresFlag(run) == "sleep"

\* while self.running: the loop sleeps again or is left
LoopAfterTick(run) == IF run THEN "sleep" ELSE "exited"

\* the for loop is exhausted: the lock is released and `while self.running`
\* is evaluated
SchedEndTick ==
  /\ sched_pc = "loop"
  /\ sched_keys = <<>>
  /\ lock' = "free"
  /\ sched_pc' = LoopAfterTick(running)
  /\ sched_wake' = IF running THEN now + TickLen ELSE sched_wake
  /\ sched_key' = NoKey
  /\ sched_res' = "none"
  /\ UNCHANGED <<now, cfg_vars, rl_vars, batch_vars, running, sched_now, sched_keys,
                 sched_msg, req_vars, stop_pc, sent_log, denied_ev, tick_vars,
                 rlu_vars, gw_vars, unit_vars>>

\* whether the loop body calls _send_batch(key)
CallsSendBatch(k) ==
  /\ ~(pending[k] = <<>>)
  /\ ~(first_event_time[k] = NoTime)
  /\ FlushDue(first_event_time, pending, k, sched_now)

\* one iteration of `for key in list(self.pending.keys())`
SchedNextKey ==
  /\ sched_pc = "loop"
  /\ sched_keys # <<>>
  /\ sched_keys' = Tail(sched_keys)
  /\ sched_res' = "none"
  /\ IF CallsSendBatch(Head(sched_keys))
     THEN /\ sched_key' = Head(sched_keys)
          /\ sched_pc' = "can_send"
          /\ tick_attempted' = tick_attempted \cup {Head(sched_keys)}
     ELSE /\ sched_key' = NoKey
          /\ sched_pc' = "loop"
          /\ UNCHANGED tick_attempted
  /\ UNCHANGED <<now, cfg_vars, rl_vars, batch_vars, lock, running, sched_wake,
                 sched_now, sched_msg, req_vars, stop_pc, sent_log, denied_ev,
                 tick_start, tick_denied, prev_denied, rlu_vars, gw_vars, unit_vars>>

\* where _send_batch goes after can_send: back to the loop on denial, out of
\* the thread when _format_message raises, to the sender otherwise
BatchAfterCanSend(admitted, raises) ==
  IF ~admitted THEN "loop" ELSE IF raises THEN "dead" ELSE "send"

\* _send_batch: the can_send test and, when admitted, _format_message.  An
\* exception of _format_message is caught nowhere: it leaves the with-block
\* (releasing the lock) and ends the thread.
SchedCanSend ==
  /\ sched_pc = "can_send"
  /\ CanSendEffect(sched_key[1], sched_key[2])
  /\ sched_pc' = BatchAfterCanSend(CanSendResult(sched_key[1], sched_key[2]),
                                   FormatRaises(pending[sched_key]))
  /\ lock' = IF sched_pc' = "dead" THEN "free" ELSE lock
  /\ sched_msg' = IF sched_pc' = "send" THEN FormatMessage(pending[sched_key]) ELSE sched_msg
  /\ tick_denied' = IF CanSendResult(sched_key[1], sched_key[2]) THEN tick_denied
                    ELSE tick_denied \cup {[key |-> sched_key,
                                             events |-> pending[sched_key],
                                             first |-> first_event_time[sched_key]]}
  /\ denied_ev' = IF CanSendResult(sched_key[1], sched_key[2]) THEN denied_ev
                  ELSE denied_ev \cup Range(Ids(pending[sched_key]))
  /\ UNCHANGED <<now, cfg_vars, recorded, batch_vars, running, sched_wake,
                 sched_now, sched_keys, sched_key, sched_res, req_vars, stop_pc,
                 sent_log, tick_start, tick_attempted, prev_denied, rlu_vars, gw_vars, unit_vars>>

\* a _send_batch that keeps the batch when send_sms reports a failure
BatchAfterSend_KeepOnFailure(ok) == IF ok THEN "record" ELSE "loop"

\* where _send_batch goes after send_sms returned
BatchAfterSend(ok) == IF ok THEN "record" ELSE "clear"

\* self.sender.send_sms(recipient_number, message) returns ok
SchedSendReturn(ok) ==
  /\ sched_pc = "send"
  /\ sent_log' = Append(sent_log, [key |-> sched_key, ids |-> Ids(pending[sched_key]),
                                   msg |-> sched_msg, ok |-> ok, by |-> "sched"])
  /\ sched_res' = IF ok THEN "ok" ELSE "fail"
  /\ sched_pc' = BatchAfterSend(ok)
  /\ UNCHANGED <<now, cfg_vars, rl_vars, batch_vars, lock, running, sched_wake,
                 sched_now, sched_keys, sched_key, sched_msg, req_vars, stop_pc,
                 denied_ev, tick_vars, rlu_vars, gw_vars, unit_vars>>

\* self.rate_limiter.record_sent(recipient_number, camera_id)
SchedRecord ==
  /\ sched_pc = "record"
  /\ RecordSent(sched_key[1], sched_key[2])
  /\ sched_pc' = "clear"
  /\ UNCHANGED <<now, cfg_vars, batch_vars, lock, running, sched_wake,
                 sched_now, sched_keys, sched_key, sched_msg, sched_res, req_vars,
                 stop_pc, sent_log, denied_ev, tick_vars, rlu_vars, gw_vars, unit_vars>>

\* del self.pending[key]
SchedClear ==
  /\ sched_pc = "clear"
  /\ pending' = [pending EXCEPT ![sched_key] = <<>>]
  /\ key_order' = Remove(key_order, sched_key)
  /\ sched_pc' = "clear_first"
  /\ UNCHANGED <<now, cfg_vars, rl_vars, first_event_time, lock, running, sched_wake,
                 sched_now, sched_keys, sched_key, sched_msg, sched_res, req_vars,
                 stop_pc, sent_log, denied_ev, tick_vars, rlu_vars, gw_vars, unit_vars>>

\* a _send_batch that forgets to delete the key's first_event_time
FirstEventAfterClear_Kept(fet, k) == fet

\* first_event_time after lines 347-348
FirstEventAfterClear(fet, k) == [fet EXCEPT ![k] = NoTime]

\* if key in self.first_event_time: del self.first_event_time[key]
SchedClearFirst ==
  /\ sched_pc = "clear_first"
  /\ first_event_time' = FirstEventAfterClear(first_event_time, sched_key)
  /\ sched_pc' = "loop"
  /\ UNCHANGED <<now, cfg_vars, rl_vars, pending, key_order, lock, running, sched_wake,
                 sched_now, sched_keys, sched_key, sched_msg, sched_res, req_vars,
                 stop_pc, sent_log, denied_ev, tick_vars, rlu_vars, gw_vars, unit_vars>>

(***************************************************************************)
(* NotificationBatcher.stop (374-378).                                     *)
(***************************************************************************)
\* self.running = False
Stop ==
  /\ stop_pc = "idle"
  /\ running' = FALSE
  /\ stop_pc' = "join"
  /\ UNCHANGED <<now, cfg_vars, rl_vars, batch_vars, lock, sched_vars, req_vars,
                 sent_log, denied_ev, tick_vars, rlu_vars, gw_vars, unit_vars>>

\* self.thread.join() returns once the thread has ended
StopJoin ==
  /\ stop_pc = "join"
  /\ sched_pc \in {"exited", "dead"}
  /\ stop_pc' = "done"
  /\ UNCHANGED <<now, cfg_vars, rl_vars, batch_vars, lock, running, sched_vars, req_vars,
                 sent_log, denied_ev, tick_vars, rlu_vars, gw_vars, unit_vars>>

(***************************************************************************)
(* Initial values of the three groups of state.                            *)
(***************************************************************************)
RateLimitCfg(e, h, c) ==
  [enabled |-> e, max_per_hour |-> h, max_per_camera_per_hour |-> c]

\* RateLimiter.__init__ and NotificationBatcher.__init__
InitRelay ==
  /\ now = 0
  /\ sent_messages = [r \in Recipients |-> <<>>]
  /\ camera_messages = [k \in Keys |-> <<>>]
  /\ recorded = [k \in Keys |-> <<>>]
  /\ pending = [k \in Keys |-> <<>>]
  /\ key_order = <<>>
  /\ first_event_time = [k \in Keys |-> NoTime]
  /\ lock = "free"
  /\ running = TRUE
  /\ sched_pc = "sleep"
  /\ sched_wake = TickLen
  /\ sched_now = 0
  /\ sched_keys = <<>>
  /\ sched_key = NoKey
  /\ sched_msg = NoMsg
  /\ sched_res = "none"
  /\ req_pc = [t \in Threads |-> "idle"]
  /\ req_key = [t \in Threads |-> NoKey]
  /\ req_event = [t \in Threads |-> NoEvent]
  /\ stop_pc = "idle"
  /\ next_id = 1
  /\ sent_log = <<>>
  /\ denied_ev = {}
  /\ tick_start = [len |-> [k \in Keys |-> 0],
                   first |-> [k \in Keys |-> NoTime], now |-> 0]
  /\ tick_attempted = {}
  /\ tick_denied = {}
  /\ prev_denied = {}

NoResult == [r |-> "none", c |-> "none", res |-> "none"]

InitRLUnit == rl_result = NoResult

\* _normalize_event before any call
NoPayload == [t |-> "none"]
NoNormalized == [status |-> "none"]

InitNZUnit ==
  /\ nz_payload = NoPayload
  /\ nz_pc = "idle"
  /\ nz_event = NoNormalized

\* TwilioSender before configuration and before any call
InitTWUnit ==
  /\ tw_client = FALSE
  /\ tw_retry = 0
  /\ tw_pc = "idle"
  /\ tw_attempt = 0
  /\ tw_msg = 0
  /\ tw_trace = <<>>
  /\ tw_result = "none"
  /\ tw_calls = 0

\* process_event before any call, quiet hours disabled, no recipients
NoTod == 0 - 1
NoPEResult == [kind |-> "none", message |-> "", count |-> 0]
QuietHoursCfg(enabled, wellformed, start, end) ==
  [enabled |-> enabled, wellformed |-> wellformed, start |-> start, end |-> end]

InitPECall ==
  /\ pe_pc = "idle"
  /\ pe_stage = "idle"
  /\ pe_tod = NoTod
  /\ pe_quiet = "none"
  /\ pe_recipients = <<>>
  /\ pe_calls = <<>>
  /\ pe_fault = "none"
  /\ pe_result = NoPEResult
  /\ pe_runs = 0

InitPEUnit ==
  /\ qh_cfg = QuietHoursCfg(FALSE, TRUE, 0, 0)
  /\ rc_list = <<>>
  /\ InitPECall

\* get_stats before any call
NoCount == 0 - 1

InitSTUnit ==
  /\ st_pc = "idle"
  /\ st_todo = <<>>
  /\ st_sent = [r \in Recipients |-> NoCount]
  /\ st_idx = 0
  /\ st_size = 0
  /\ st_total = 0
  /\ st_result = "none"
  /\ st_reads = {}
  /\ st_calls = 0

InitGWUnit ==
  /\ gw_gateways = <<>>
  /\ gw_email = FALSE
  /\ gw_carrier = FALSE
  /\ gw_pc = "idle"
  /\ gw_idx = 0
  /\ gw_invoked = <<>>
  /\ gw_result = "none"
  /\ gw_calls = 0
  /\ gw_msg = 0
  /\ gw_bodies = {}

(***************************************************************************)
(* Spec: the relay.                                                        *)
(***************************************************************************)
Init ==
  /\ InitRelay
  /\ InitSTUnit
  /\ InitPEUnit
  /\ InitRLUnit
  /\ InitGWUnit
  /\ InitTWUnit
  /\ InitNZUnit
  /\ wl = [events |-> MaxEvents, until |-> MaxTime,
           keys |-> {<<"r1", "c1">>, <<"r1", "c2">>, <<"r2", "c1">>},
           stamps |-> [c \in Cameras |-> BOOLEAN], threads |-> {"t1"}]
  /\ batching_enabled \in BOOLEAN
  /\ template_ok \in BOOLEAN
  /\ rl_cfg \in {RateLimitCfg(e, LimHour, LimCam) : e \in BOOLEAN}

\* steps of the request path with batching enabled
NextAdd ==
  \/ \E t \in Threads, r \in Recipients, c \in Cameras, b \in BOOLEAN :
       AddNotification(t, r, c, b)
  \/ \E t \in Threads : AddAcquire(t)
  \/ \E t \in Threads : AddSetFirst(t)
  \/ \E t \in Threads : AddAppend(t)

\* steps of _send_immediate
NextImmediate ==
  \/ \E t \in Threads : ImmCanSend(t)
  \/ \E t \in Threads : ImmRaised(t)
  \/ \E t \in Threads, ok \in BOOLEAN : ImmSendReturn(t, ok)
  \/ \E t \in Threads : ImmRecord(t)

\* steps of the background thread
NextSched ==
  \/ SchedWake
  \/ SchedAcquire
  \/ SchedNextKey
  \/ SchedEndTick
  \/ SchedCanSend
  \/ \E ok \in BOOLEAN : SchedSendReturn(ok)
  \/ SchedRecord
  \/ SchedClear
  \/ SchedClearFirst

Next == Advance \/ NextAdd \/ NextImmediate \/ NextSched

Spec == Init /\ [][Next]_vars

(***************************************************************************)
(* SpecBatch: the batcher with batching and rate limiting enabled and a    *)
(* valid template, a longer run on the two cameras of one recipient: c1    *)
(* posts events without a timestamp of their own (the relay stamps them    *)
(* with datetime.now()), c2 posts its own timestamp as a string.           *)
(***************************************************************************)
InitBatch ==
  /\ InitRelay
  /\ InitSTUnit
  /\ InitPEUnit
  /\ InitRLUnit
  /\ InitGWUnit
  /\ InitTWUnit
  /\ InitNZUnit
  /\ wl = [events |-> MaxBatchEvents, until |-> MaxBatchTime,
           keys |-> {<<"r1", "c1">>, <<"r1", "c2">>},
           stamps |-> [c \in Cameras |-> IF c = "c1" THEN {TRUE} ELSE {FALSE}],
           threads |-> {"t1"}]
  /\ batching_enabled = TRUE
  /\ template_ok = TRUE
  /\ rl_cfg = RateLimitCfg(TRUE, LimHour, LimCam)

NextBatch == Advance \/ NextAdd \/ NextSched

SpecBatch == InitBatch /\ [][NextBatch]_vars

(***************************************************************************)
(* SpecRL: the RateLimiter called directly, any order of can_send,         *)
(* record_sent and clock steps, for every configuration of the ceilings.   *)
(***************************************************************************)
RecordsMade == Len(recorded[<<"r1", "c1">>]) + Len(recorded[<<"r1", "c2">>])
               + Len(recorded[<<"r2", "c1">>]) + Len(recorded[<<"r2", "c2">>])

RLCanSend(r, c) ==
  /\ CanSendEffect(r, c)
  /\ rl_result' = [r |-> r, c |-> c,
                   res |-> IF CanSendResult(r, c) THEN "true" ELSE "false"]
  /\ UNCHANGED <<now, cfg_vars, recorded, batch_vars, lock, running, sched_vars,
                 req_vars, stop_pc, sent_log, denied_ev, tick_vars, gw_vars, unit_vars>>

RLRecordSent(r, c) ==
  /\ RecordsMade < MaxRecords
  /\ RecordSent(r, c)
  /\ UNCHANGED <<now, cfg_vars, batch_vars, lock, running, sched_vars,
                 req_vars, stop_pc, sent_log, denied_ev, tick_vars, rlu_vars, gw_vars, unit_vars>>

InitRL ==
  /\ InitRelay
  /\ InitSTUnit
  /\ InitPEUnit
  /\ InitRLUnit
  /\ InitGWUnit
  /\ InitTWUnit
  /\ InitNZUnit
  /\ wl = [events |-> 0, until |-> MaxTime, keys |-> {},
           stamps |-> [c \in Cameras |-> {}], threads |-> {}]
  /\ batching_enabled = TRUE
  /\ template_ok = TRUE
  /\ rl_cfg \in {RateLimitCfg(e, h, c) : e \in BOOLEAN, h \in {LimHour, LimHour + 1},
                                         c \in {LimCam, LimCam + 1}}

NextRL ==
  \/ Advance
  \/ \E r \in Recipients, c \in Cameras : RLCanSend(r, c)
  \/ \E r \in Recipients, c \in Cameras : RLRecordSent(r, c)

SpecRL == InitRL /\ [][NextRL]_vars

(***************************************************************************)
(* SMSGatewayManager (sms_gateway.py:261-305).                             *)
(***************************************************************************)
GatewayTypes == {"gsm_modem", "twilio", "none"}
Outcomes == {"ok", "fail", "raise"}

\* the list __init__ builds: the primary gateway, then the fallback gateway,
\* each only when its configured type is one of the two known ones
ManagerGateways(primary, fallback) ==
  (IF primary \in {"gsm_modem", "twilio"}
   THEN <<[role |-> "primary", type |-> primary]>> ELSE <<>>)
  \o (IF fallback \in {"twilio", "gsm_modem"}
      THEN <<[role |-> "fallback", type |-> fallback]>> ELSE <<>>)

\* send_sms(recipient, message, carrier) is called, len(message) = len
GwSendSms(carrier, len) ==
  /\ gw_pc = "idle"
  /\ gw_calls < MaxCalls
  /\ gw_calls' = gw_calls + 1
  /\ gw_carrier' = carrier
  /\ gw_msg' = len
  /\ gw_idx' = 1
  /\ gw_invoked' = <<>>
  /\ gw_result' = "none"
  /\ gw_pc' = "direct"
  /\ UNCHANGED <<now, cfg_vars, rl_vars, batch_vars, lock, running, sched_vars, req_vars,
                 stop_pc, sent_log, denied_ev, tick_vars, rlu_vars, unit_vars, gw_gateways, gw_email,
                 gw_bodies>>

\* a loop that goes on to the next gateway even after a success
GwAfterDirect_NoShortCircuit(out) == "next"

\* a loop without the try/except around gateway.send_sms
GwAfterDirect_Uncaught(out) ==
  IF out = "ok" THEN "return_true" ELSE IF out = "raise" THEN "raise" ELSE "next"

\* what the loop over self.gateways does with the outcome of one gateway:
\* a true value returns True, a false value and a caught exception go on
GwAfterDirect(out) == IF out = "ok" THEN "return_true" ELSE "next"

\* TwilioGateway.send_sms (157-183): messages.create(body=message, ...)
TwilioGatewayBody(len) == len

\* one iteration of `for gateway in self.gateways`; a TwilioGateway that
\* reports success has handed its body to messages.create
GwDirect(out) ==
  /\ gw_pc = "direct"
  /\ gw_idx <= Len(gw_gateways)
  /\ gw_bodies' = IF gw_gateways[gw_idx].type = "twilio" /\ out = "ok"
                  THEN gw_bodies \cup {TwilioGatewayBody(gw_msg)} ELSE gw_bodies
  /\ gw_invoked' = Append(gw_invoked, [ch |-> gw_gateways[gw_idx].role, out |-> out])
  /\ gw_pc' = IF GwAfterDirect(out) = "next" THEN "direct" ELSE "done"
  /\ gw_idx' = IF GwAfterDirect(out) = "next" THEN gw_idx + 1 ELSE gw_idx
  /\ gw_result' = CASE GwAfterDirect(out) = "return_true" -> "true"
                    [] GwAfterDirect(out) = "next" -> gw_result
                    [] OTHER -> "raised"
  /\ UNCHANGED <<now, cfg_vars, rl_vars, batch_vars, lock, running, sched_vars, req_vars,
                 stop_pc, sent_log, denied_ev, tick_vars, rlu_vars, unit_vars, gw_gateways, gw_email,
                 gw_carrier, gw_calls, gw_msg>>

\* if self.email_gateway and carrier
GwEmailTried == gw_email /\ gw_carrier

\* a send_sms that calls the email gateway and drops its result
GwAfterEmail_ResultDropped(out) == "false"

\* the value send_sms returns after the email gateway: its result, or False
\* when its exception was caught
GwAfterEmail(out) == IF out = "ok" THEN "true" ELSE "false"

\* the email gateway is tried after the loop
GwEmail(out) ==
  /\ gw_pc = "direct"
  /\ gw_idx > Len(gw_gateways)
  /\ GwEmailTried
  /\ gw_invoked' = Append(gw_invoked, [ch |-> "email", out |-> out])
  /\ gw_result' = GwAfterEmail(out)
  /\ gw_pc' = "done"
  /\ UNCHANGED <<now, cfg_vars, rl_vars, batch_vars, lock, running, sched_vars, req_vars,
                 stop_pc, sent_log, denied_ev, tick_vars, rlu_vars, unit_vars, gw_gateways, gw_email,
                 gw_carrier, gw_idx, gw_calls, gw_msg, gw_bodies>>

\* no email gateway or no carrier: "All SMS gateways failed", return False
GwNoEmail ==
  /\ gw_pc = "direct"
  /\ gw_idx > Len(gw_gateways)
  /\ ~GwEmailTried
  /\ gw_result' = "false"
  /\ gw_pc' = "done"
  /\ UNCHANGED <<now, cfg_vars, rl_vars, batch_vars, lock, running, sched_vars, req_vars,
                 stop_pc, sent_log, denied_ev, tick_vars, rlu_vars, unit_vars, gw_gateways, gw_email,
                 gw_carrier, gw_idx, gw_invoked, gw_calls, gw_msg, gw_bodies>>

\* the caller has the result
GwReturn ==
  /\ gw_pc = "done"
  /\ gw_pc' = "idle"
  /\ UNCHANGED <<now, cfg_vars, rl_vars, batch_vars, lock, running, sched_vars, req_vars,
                 stop_pc, sent_log, denied_ev, tick_vars, rlu_vars, unit_vars, gw_gateways, gw_email,
                 gw_carrier, gw_idx, gw_invoked, gw_result, gw_calls, gw_msg, gw_bodies>>

InitGW ==
  /\ InitRelay
  /\ InitSTUnit
  /\ InitPEUnit
  /\ InitRLUnit
  /\ InitTWUnit
  /\ InitNZUnit
  /\ wl = [events |-> 0, until |-> MaxTime, keys |-> {},
           stamps |-> [c \in Cameras |-> {}], threads |-> {}]
  /\ batching_enabled = TRUE
  /\ template_ok = TRUE
  /\ rl_cfg = RateLimitCfg(TRUE, LimHour, LimCam)
  /\ gw_gateways \in {ManagerGateways(p, f) : p \in GatewayTypes, f \in GatewayTypes}
  /\ gw_email \in BOOLEAN
  /\ gw_carrier = FALSE
  /\ gw_pc = "idle"
  /\ gw_idx = 0
  /\ gw_invoked = <<>>
  /\ gw_result = "none"
  /\ gw_calls = 0
  /\ gw_msg = 0
  /\ gw_bodies = {}

NextGW ==
  \/ \E carrier \in BOOLEAN, len \in MsgLens : GwSendSms(carrier, len)
  \/ \E out \in Outcomes : GwDirect(out)
  \/ \E out \in Outcomes : GwEmail(out)
  \/ GwNoEmail
  \/ GwReturn

SpecGW == InitGW /\ [][NextGW]_vars

(***************************************************************************)
(* TwilioSender.send_sms (twilio_camera_relay.py:165-199).                 *)
(***************************************************************************)
\* what one messages.create call can do: return, raise TwilioRestException
\* with code 20003, with code 21211, with another code, or raise another
\* exception
TwOutcomes == {"ok", "auth", "invalid", "twilio_other", "error"}

NoTrace == [op |-> "none", out |-> "none", body |-> 0]

\* body=message[:1600]
TwilioSenderBody(len) == IF len > BodyLimit THEN BodyLimit ELSE len

\* send_sms(to_number, message) is called; without a client it returns False
TwSendSms(len) ==
  /\ tw_pc = "idle"
  /\ tw_calls < MaxCalls
  /\ tw_calls' = tw_calls + 1
  /\ tw_msg' = len
  /\ tw_trace' = <<>>
  /\ tw_attempt' = 0
  /\ tw_pc' = IF tw_client THEN "loop" ELSE "done"
  /\ tw_result' = IF tw_client THEN "none" ELSE "false"
  /\ UNCHANGED <<now, cfg_vars, rl_vars, batch_vars, lock, running, sched_vars, req_vars,
                 stop_pc, sent_log, denied_ev, tick_vars, rlu_vars, gw_vars, nz_vars, pe_vars, st_vars,
                 tw_client, tw_retry>>

\* where the loop body goes after messages.create: return True, return False
\* on code 20003 or 21211, otherwise on to the delay test
TwAfterCreate(out) ==
  CASE out = "ok" -> "return_true"
    [] out \in {"auth", "invalid"} -> "return_false"
    [] OTHER -> "retry"

\* one messages.create call of `for attempt in range(retry_attempts)`
TwCreate(out) ==
  /\ tw_pc = "loop"
  /\ tw_attempt < tw_retry
  /\ tw_trace' = Append(tw_trace, [op |-> "create", out |-> out,
                                    body |-> TwilioSenderBody(tw_msg)])
  /\ tw_pc' = IF TwAfterCreate(out) = "retry" THEN "delay" ELSE "done"
  /\ tw_result' = CASE TwAfterCreate(out) = "return_true" -> "true"
                    [] TwAfterCreate(out) = "return_false" -> "false"
                    [] OTHER -> tw_result
  /\ UNCHANGED <<now, cfg_vars, rl_vars, batch_vars, lock, running, sched_vars, req_vars,
                 stop_pc, sent_log, denied_ev, tick_vars, rlu_vars, gw_vars, nz_vars, pe_vars, st_vars,
                 tw_client, tw_retry, tw_attempt, tw_msg, tw_calls>>

\* a loop that sleeps after every failed attempt, the last one too
TwSleeps_AfterLast(attempt, retry_attempts) == TRUE

\* if attempt < retry_attempts - 1: time.sleep(retry_delay)
TwSleeps(attempt, retry_attempts) == attempt < retry_attempts - 1

\* the end of the loop body after a failed attempt, and the next iteration
TwDelay ==
  /\ tw_pc = "delay"
  /\ tw_trace' = IF TwSleeps(tw_attempt, tw_retry)
                 THEN Append(tw_trace, [op |-> "sleep", out |-> "none", body |-> 0])
                 ELSE tw_trace
  /\ tw_attempt' = tw_attempt + 1
  /\ tw_pc' = "loop"
  /\ UNCHANGED <<now, cfg_vars, rl_vars, batch_vars, lock, running, sched_vars, req_vars,
                 stop_pc, sent_log, denied_ev, tick_vars, rlu_vars, gw_vars, nz_vars, pe_vars, st_vars,
                 tw_client, tw_retry, tw_msg, tw_result, tw_calls>>

\* range(retry_attempts) is exhausted: return False
TwExhausted ==
  /\ tw_pc = "loop"
  /\ ~(tw_attempt < tw_retry)
  /\ tw_result' = "false"
  /\ tw_pc' = "done"
  /\ UNCHANGED <<now, cfg_vars, rl_vars, batch_vars, lock, running, sched_vars, req_vars,
                 stop_pc, sent_log, denied_ev, tick_vars, rlu_vars, gw_vars, nz_vars, pe_vars, st_vars,
                 tw_client, tw_retry, tw_attempt, tw_msg, tw_trace, tw_calls>>

\* the caller has the result
TwReturn ==
  /\ tw_pc = "done"
  /\ tw_pc' = "idle"
  /\ UNCHANGED <<now, cfg_vars, rl_vars, batch_vars, lock, running, sched_vars, req_vars,
                 stop_pc, sent_log, denied_ev, tick_vars, rlu_vars, gw_vars, nz_vars, pe_vars, st_vars,
                 tw_client, tw_retry, tw_attempt, tw_msg, tw_trace, tw_result, tw_calls>>

\* TwilioSender.__init__ / init_client (146-163): the client is set or None;
\* retry_attempts is read from the configuration
InitTW ==
  /\ InitRelay
  /\ InitSTUnit
  /\ InitPEUnit
  /\ InitRLUnit
  /\ InitGWUnit
  /\ InitNZUnit
  /\ wl = [events |-> 0, until |-> MaxTime, keys |-> {},
           stamps |-> [c \in Cameras |-> {}], threads |-> {}]
  /\ batching_enabled = TRUE
  /\ template_ok = TRUE
  /\ rl_cfg = RateLimitCfg(TRUE, LimHour, LimCam)
  /\ tw_client \in BOOLEAN
  /\ tw_retry \in 0..MaxRetry
  /\ tw_pc = "idle"
  /\ tw_attempt = 0
  /\ tw_msg = 0
  /\ tw_trace = <<>>
  /\ tw_result = "none"
  /\ tw_calls = 0

NextTW ==
  \/ \E len \in MsgLens : TwSendSms(len)
  \/ \E out \in TwOutcomes : TwCreate(out)
  \/ TwDelay
  \/ TwExhausted
  \/ TwReturn

SpecTW == InitTW /\ [][NextTW]_vars

(***************************************************************************)
(* CameraEventProcessor._normalize_event (twilio_camera_relay.py:424-466). *)
(* A payload is a JSON object; each of its fields is absent, a string, or  *)
(* a value that is neither a string nor an object (number, list, null);    *)
(* EventNotificationAlert may also be an object.                           *)
(***************************************************************************)
Absent == [t |-> "absent", s |-> ""]
Str(x) == [t |-> "str", s |-> x]
Other == [t |-> "other", s |-> ""]
\* datetime.now()
Instant == [t |-> "datetime", s |-> ""]

\* d.get(key, default) for the field value v of key
Get(v, default) == IF v.t = "absent" THEN default ELSE v

Alerts ==
  {Absent, Other} \cup
  [t : {"object"}, ipAddress : {Absent, Str("10.0.0.5")},
   eventType : {Absent, Str("fielddetection"), Str("linedetection")},
   dateTime : {Absent, Str("2024-05-01T10:00:00")}]

Payloads ==
  [EventNotificationAlert : Alerts,
   Action : {Absent, Str("Pulse"), Str("Start")},
   SerialID : {Absent, Str("SN1")},
   DeviceID : {Absent, Str("DEV1")},
   Code : {Absent, Str("AlarmLocal"), Str("VideoMotion"), Str("NewCode"), Other},
   camera : {Absent, Str(""), Str("c1")},
   trigger : {Absent, Str("alert")},
   priority : {Absent, Str("high"), Str("urgent")},
   camera_id : {Absent, Str("c2")},
   id : {Absent, Str("cam3")},
   event_type : {Absent, Str("intrusion")},
   type : {Absent, Str("tamper")},
   timestamp : {Absent, Str("2024-05-01T10:00:00")}]

Raised == [status |-> "raised"]

Normalized(dialect, camera_id, event_type, timestamp, priority) ==
  [status |-> "ok", dialect |-> dialect, camera_id |-> camera_id,
   event_type |-> event_type, timestamp |-> timestamp, priority |-> priority]

\* _parse_dahua_code: code_map.get(code, code)
ParseDahuaCode(code) ==
  CASE code = Str("VideoMotion") -> Str("Motion detected")
    [] code = Str("AlarmLocal") -> Str("Local alarm")
    [] OTHER -> code

\* 'Alarm' in code, for the code strings of Payloads
ContainsAlarm(code) == code \in {Str("AlarmLocal")}

\* a chain that tests the 'camera' field before Action == "Pulse"
Dialect_CameraBeforePulse(p) ==
  IF p.EventNotificationAlert.t # "absent" THEN "hikvision"
  ELSE IF p.camera.t # "absent" THEN "blueiris"
  ELSE IF p.Action.t # "absent" /\ p.Action = Str("Pulse") THEN "dahua"
  ELSE "generic"

\* the if/elif chain of _normalize_event
Dialect(p) ==
  IF p.EventNotificationAlert.t # "absent" THEN "hikvision"
  ELSE IF p.Action.t # "absent" /\ p.Action = Str("Pulse") THEN "dahua"
  ELSE IF p.camera.t # "absent" THEN "blueiris"
  ELSE "generic"

\* a Hikvision branch that knows no high priority
HikvisionPriority_AlwaysNormal(eventType) == Str("normal")

\* 'high' if alert.get('eventType') == 'fielddetection' else 'normal'
HikvisionPriority(eventType) ==
  IF eventType = Str("fielddetection") THEN Str("high") ELSE Str("normal")

\* lines 429-436; alert.get raises AttributeError when alert is no object
NormalizeHikvision(p) ==
  LET alert == p.EventNotificationAlert IN
  IF alert.t # "object" THEN Raised
  ELSE Normalized("hikvision", Get(alert.ipAddress, Str("unknown")),
                  Get(alert.eventType, Str("motion")),
                  Get(alert.dateTime, Instant),
                  HikvisionPriority(alert.eventType))

\* lines 440-446; code_map.get raises TypeError on a list or an object, and
\* 'Alarm' in code raises TypeError on a number, a boolean or null
NormalizeDahua(p) ==
  LET code == Get(p.Code, Str("VideoMotion")) IN
  IF code.t # "str" THEN Raised
  ELSE Normalized("dahua", Get(p.SerialID, Get(p.DeviceID, Str("unknown"))),
                  ParseDahuaCode(code), Instant,
                  IF ContainsAlarm(Get(p.Code, Str("")))
                  THEN Str("high") ELSE Str("normal"))

\* lines 450-456
NormalizeBlueIris(p) ==
  Normalized("blueiris", Get(p.camera, Str("unknown")), Get(p.trigger, Str("motion")),
             Instant, Get(p.priority, Str("normal")))

\* lines 460-466
NormalizeGeneric(p) ==
  Normalized("generic", Get(p.camera_id, Get(p.id, Str("unknown"))),
             Get(p.event_type, Get(p.type, Str("motion"))),
             Get(p.timestamp, Instant), Get(p.priority, Str("normal")))

NormalizeEvent(p) ==
  CASE Dialect(p) = "hikvision" -> NormalizeHikvision(p)
    [] Dialect(p) = "dahua" -> NormalizeDahua(p)
    [] Dialect(p) = "blueiris" -> NormalizeBlueIris(p)
    [] OTHER -> NormalizeGeneric(p)

\* _normalize_event(data) is called
Normalize ==
  /\ nz_pc = "ready"
  /\ nz_event' = NormalizeEvent(nz_payload)
  /\ nz_pc' = "done"
  /\ UNCHANGED <<now, cfg_vars, rl_vars, batch_vars, lock, running, sched_vars, req_vars,
                 stop_pc, sent_log, denied_ev, tick_vars, rlu_vars, gw_vars, tw_vars,
                 nz_payload, pe_vars, st_vars>>

InitNZ ==
  /\ InitRelay
  /\ InitSTUnit
  /\ InitPEUnit
  /\ InitRLUnit
  /\ InitGWUnit
  /\ InitTWUnit
  /\ wl = [events |-> 0, until |-> MaxTime, keys |-> {},
           stamps |-> [c \in Cameras |-> {}], threads |-> {}]
  /\ batching_enabled = TRUE
  /\ template_ok = TRUE
  /\ rl_cfg = RateLimitCfg(TRUE, LimHour, LimCam)
  /\ nz_payload \in Payloads
  /\ nz_pc = "ready"
  /\ nz_event = NoNormalized

NextNZ == Normalize

SpecNZ == InitNZ /\ [][NextNZ]_vars

(***************************************************************************)
(* CameraEventProcessor.process_event (twilio_camera_relay.py:390-422),    *)
(* _in_quiet_hours (482-496) and _get_recipients_for_camera (498-510).     *)
(* Times of day are 0..MaxClock; the HH:MM marks a configuration can name  *)
(* are the even ones, datetime.now().time() can be any of them.            *)
(***************************************************************************)
Clock == 0..MaxClock
QuietMarks == {t \in Clock : t % 2 = 0}

\* a window test that leaves the instant 'end' out
QuietWindow_EndExcluded(start, end, t) ==
  IF start > end THEN t >= start \/ t < end
  ELSE start <= t /\ t < end

\* lines 492-496
QuietWindow(start, end, t) ==
  IF start > end THEN t >= start \/ t <= end
  ELSE start <= t /\ t <= end

\* _in_quiet_hours at time of day t: quiet_config['start'|'end'] raises
\* KeyError when the key is missing and strptime raises ValueError when the
\* value is not HH:MM
InQuietHours(cfg, t) ==
  IF ~cfg.enabled THEN "false"
  ELSE IF ~cfg.wellformed THEN "raise"
  ELSE IF QuietWindow(cfg.start, cfg.end, t) THEN "true" ELSE "false"

QuietHoursCfgs ==
  {QuietHoursCfg(FALSE, TRUE, 0, 0), QuietHoursCfg(TRUE, FALSE, 0, 0)} \cup
  {QuietHoursCfg(TRUE, TRUE, a, b) : a \in QuietMarks, b \in QuietMarks}

\* a cameras value: a list of camera ids, or a value (null, a number) on
\* which 'in' raises TypeError
CameraList(ids) == [list |-> TRUE, ids |-> ids]
NotAList == [list |-> FALSE, ids |-> {}]

\* a recipient entry: its number, recipient.get('active', True) and its
\* cameras value
Recipient(number, active, cameras) ==
  [number |-> number, active |-> active, cameras |-> cameras]

CameraLists == {CameraList({"all"}), CameraList({"c1"}), CameraList({"c2"}), NotAList}

RecipientLists ==
  {<<>>} \cup
  {<<Recipient("r1", a, c)>> : a \in BOOLEAN, c \in CameraLists} \cup
  {<<Recipient("r1", a, c), Recipient("r2", b, d)>> :
     a \in BOOLEAN, c \in CameraLists, b \in BOOLEAN, d \in CameraLists}

\* a test that knows "all" only
RecipientMatches_AllOnly(rec, camera_id) == "all" \in rec.cameras.ids

\* if 'all' in cameras or camera_id in cameras, for a cameras list
RecipientMatches(rec, camera_id) ==
  "all" \in rec.cameras.ids \/ camera_id \in rec.cameras.ids

\* _get_recipients_for_camera: the loop over the configured recipients
RECURSIVE GetRecipientsForCamera(_, _)
GetRecipientsForCamera(list, camera_id) ==
  IF list = <<>> THEN [raised |-> FALSE, list |-> <<>>]
  ELSE IF ~Head(list).active THEN GetRecipientsForCamera(Tail(list), camera_id)
  ELSE IF ~Head(list).cameras.list THEN [raised |-> TRUE, list |-> <<>>]
  ELSE LET rest == GetRecipientsForCamera(Tail(list), camera_id) IN
       IF rest.raised THEN rest
       ELSE IF RecipientMatches(Head(list), camera_id)
       THEN [raised |-> FALSE, list |-> <<Head(list)>> \o rest.list]
       ELSE rest

PESuccess(message, count) == [kind |-> "success", message |-> message, count |-> count]

\* an except clause that lets the exceptions of the enqueueing loop pass
PEExcept_EnqueueEscapes(stage) ==
  IF stage = "enqueue" THEN [kind |-> "escaped", message |-> "", count |-> 0]
  ELSE [kind |-> "failure", message |-> "error", count |-> 0]

\* except Exception as e: return {'success': False, 'error': str(e)}
PEExcept(stage) == [kind |-> "failure", message |-> "error", count |-> 0]

\* payloads of the generic, Blue Iris and Hikvision dialects whose camera
\* is one of Cameras
BlankPayload ==
  [EventNotificationAlert |-> Absent, Action |-> Absent, SerialID |-> Absent,
   DeviceID |-> Absent, Code |-> Absent, camera |-> Absent, trigger |-> Absent,
   priority |-> Absent, camera_id |-> Absent, id |-> Absent, event_type |-> Absent,
   type |-> Absent, timestamp |-> Absent]

PEPayloads ==
  {[BlankPayload EXCEPT !.EventNotificationAlert = Other]} \cup
  {[BlankPayload EXCEPT !.camera = Str("c1"), !.priority = q] :
     q \in {Absent, Str("high")}} \cup
  {[BlankPayload EXCEPT !.camera_id = Str("c2"), !.priority = q, !.timestamp = s] :
     q \in {Absent, Str("high")}, s \in {Absent, Str("2024-05-01T10:00:00")}}

\* the request thread that runs process_event
PEThread == "t1"

\* process_event(data) is called: event = self._normalize_event(data)
PEStart(p) ==
  /\ pe_pc \in {"idle", "done"}
  /\ pe_runs < MaxProcess
  /\ pe_runs' = pe_runs + 1
  /\ nz_payload' = p
  /\ nz_event' = NormalizeEvent(p)
  /\ nz_pc' = "done"
  /\ pe_stage' = "normalize"
  /\ pe_tod' = NoTod
  /\ pe_quiet' = "none"
  /\ pe_recipients' = <<>>
  /\ pe_calls' = <<>>
  /\ IF NormalizeEvent(p) = Raised
     THEN /\ pe_fault' = "normalize"
          /\ pe_result' = PEExcept("normalize")
          /\ pe_pc' = "done"
     ELSE /\ pe_fault' = "none"
          /\ pe_result' = NoPEResult
          /\ pe_pc' = "quiet"
  /\ UNCHANGED <<now, cfg_vars, rl_vars, batch_vars, lock, running, sched_vars, req_vars,
                 stop_pc, sent_log, denied_ev, tick_vars, rlu_vars, gw_vars, tw_vars, st_vars,
                 qh_cfg, rc_list>>

\* a condition that leaves the priority out
Suppressed_AnyPriority(quiet, event) == quiet = "true"

\* the condition of line 400, once _in_quiet_hours has returned
Suppressed(quiet, event) == quiet = "true" /\ event.priority # Str("high")

\* if self._in_quiet_hours() and event.get('priority') != 'high'
PEQuiet(t) ==
  /\ pe_pc = "quiet"
  /\ pe_stage' = "quiet"
  /\ pe_tod' = t
  /\ pe_quiet' = InQuietHours(qh_cfg, t)
  /\ CASE InQuietHours(qh_cfg, t) = "raise" ->
            /\ pe_fault' = "quiet"
            /\ pe_result' = PEExcept("quiet")
            /\ pe_pc' = "done"
       [] Suppressed(InQuietHours(qh_cfg, t), nz_event) ->
            /\ pe_result' = PESuccess("Quiet hours", 0)
            /\ pe_pc' = "done"
            /\ UNCHANGED pe_fault
       [] OTHER ->
            /\ pe_pc' = "resolve"
            /\ UNCHANGED <<pe_fault, pe_result>>
  /\ UNCHANGED <<now, cfg_vars, rl_vars, batch_vars, lock, running, sched_vars, req_vars,
                 stop_pc, sent_log, denied_ev, tick_vars, rlu_vars, gw_vars, tw_vars, st_vars,
                 nz_vars, qh_cfg, rc_list, pe_recipients, pe_calls, pe_runs>>

\* recipients = self._get_recipients_for_camera(camera_id); if not recipients
PEResolve ==
  LET found == GetRecipientsForCamera(rc_list, nz_event.camera_id.s) IN
  /\ pe_pc = "resolve"
  /\ pe_stage' = "resolve"
  /\ CASE found.raised ->
            /\ pe_fault' = "resolve"
            /\ pe_result' = PEExcept("resolve")
            /\ pe_pc' = "done"
            /\ UNCHANGED pe_recipients
       [] ~found.raised /\ found.list = <<>> ->
            /\ pe_result' = PESuccess("No recipients", 0)
            /\ pe_pc' = "done"
            /\ UNCHANGED <<pe_fault, pe_recipients>>
       [] OTHER ->
            /\ pe_recipients' = found.list
            /\ pe_pc' = "enqueue"
            /\ UNCHANGED <<pe_fault, pe_result>>
  /\ UNCHANGED <<now, cfg_vars, rl_vars, batch_vars, lock, running, sched_vars, req_vars,
                 stop_pc, sent_log, denied_ev, tick_vars, rlu_vars, gw_vars, tw_vars, st_vars,
                 nz_vars, qh_cfg, rc_list, pe_tod, pe_quiet, pe_calls, pe_runs>>

\* for recipient in recipients: self.batcher.add_notification(recipient, camera_id, event);
\* the event carries a datetime or the string of the payload as timestamp
PEEnqueue ==
  /\ pe_pc = "enqueue"
  /\ Len(pe_calls) < Len(pe_recipients)
  /\ AddNotificationCall(PEThread, pe_recipients[Len(pe_calls) + 1].number,
                         nz_event.camera_id.s, nz_event.timestamp = Instant)
  /\ pe_calls' = Append(pe_calls, pe_recipients[Len(pe_calls) + 1].number)
  /\ pe_stage' = "enqueue"
  /\ UNCHANGED <<tw_vars, st_vars, nz_vars, qh_cfg, rc_list, pe_pc, pe_tod, pe_quiet, pe_recipients,
                 pe_fault, pe_result, pe_runs>>

\* an exception of add_notification reaches the except clause
PECatch ==
  /\ pe_pc = "enqueue"
  /\ req_pc[PEThread] = "raised"
  /\ req_pc' = [req_pc EXCEPT ![PEThread] = "idle"]
  /\ pe_fault' = "enqueue"
  /\ pe_result' = PEExcept("enqueue")
  /\ pe_pc' = "done"
  /\ UNCHANGED <<now, cfg_vars, rl_vars, batch_vars, lock, running, sched_vars,
                 req_key, req_event, next_id, stop_pc, sent_log, denied_ev, tick_vars,
                 rlu_vars, gw_vars, tw_vars, st_vars, nz_vars, qh_cfg, rc_list, pe_stage, pe_tod,
                 pe_quiet, pe_recipients, pe_calls, pe_runs>>

\* the loop is over: return {'success': True, 'message': f'Notifications
\* queued for {len(recipients)} recipients'}
PEQueued ==
  /\ pe_pc = "enqueue"
  /\ req_pc[PEThread] = "idle"
  /\ Len(pe_calls) = Len(pe_recipients)
  /\ pe_result' = PESuccess("Notifications queued", Len(pe_recipients))
  /\ pe_pc' = "done"
  /\ UNCHANGED <<now, cfg_vars, rl_vars, batch_vars, lock, running, sched_vars, req_vars,
                 stop_pc, sent_log, denied_ev, tick_vars, rlu_vars, gw_vars, tw_vars, st_vars,
                 nz_vars, qh_cfg, rc_list, pe_stage, pe_tod, pe_quiet, pe_recipients,
                 pe_calls, pe_fault, pe_runs>>

InitPE ==
  /\ InitRelay
  /\ InitSTUnit
  /\ InitRLUnit
  /\ InitGWUnit
  /\ InitTWUnit
  /\ InitNZUnit
  /\ InitPECall
  /\ wl = [events |-> MaxProcess * Cardinality(Recipients), until |-> 0, keys |-> Keys,
           stamps |-> [c \in Cameras |-> BOOLEAN], threads |-> {PEThread}]
  /\ batching_enabled \in BOOLEAN
  /\ template_ok \in BOOLEAN
  /\ rl_cfg = RateLimitCfg(TRUE, LimHour, LimCam)
  /\ qh_cfg \in QuietHoursCfgs
  /\ rc_list \in RecipientLists

NextPE ==
  \/ \E p \in PEPayloads : PEStart(p)
  \/ \E t \in Clock : PEQuiet(t)
  \/ PEResolve
  \/ PEEnqueue
  \/ PECatch
  \/ PEQueued
  \/ AddAcquire(PEThread)
  \/ AddSetFirst(PEThread)
  \/ AddAppend(PEThread)
  \/ ImmCanSend(PEThread)
  \/ \E ok \in BOOLEAN : ImmSendReturn(PEThread, ok)
  \/ ImmRecord(PEThread)

SpecPE == InitPE /\ [][NextPE]_vars

(***************************************************************************)
(* SpecConc: two webhook requests at a time (the Flask server handles each *)
(* request on a thread of its own) and the scheduler, rate limiting        *)
(* enabled, batching enabled or disabled, a valid template.                *)
(***************************************************************************)
InitConc ==
  /\ InitRelay
  /\ InitSTUnit
  /\ InitPEUnit
  /\ InitRLUnit
  /\ InitGWUnit
  /\ InitTWUnit
  /\ InitNZUnit
  /\ wl = [events |-> MaxEvents, until |-> MaxTime,
           keys |-> {<<"r1", "c1">>, <<"r1", "c2">>},
           stamps |-> [c \in Cameras |-> {TRUE}], threads |-> Threads]
  /\ batching_enabled \in BOOLEAN
  /\ template_ok = TRUE
  /\ rl_cfg = RateLimitCfg(TRUE, LimHour, LimCam)

NextConc ==
  \/ Advance
  \/ NextAdd
  \/ \E t \in Threads : ImmCanSend(t)
  \/ \E t \in Threads, ok \in BOOLEAN : ImmSendReturn(t, ok)
  \/ \E t \in Threads : ImmRecord(t)
  \/ NextSched

SpecConc == InitConc /\ [][NextConc]_vars

(***************************************************************************)
(* get_stats (twilio_camera_relay.py:592-611): the /stats request, on a    *)
(* server thread of its own.  It takes no lock.                            *)
(***************************************************************************)
\* holder of RateLimiter.lock between two calls of can_send and record_sent,
\* which hold it from entry to return
LimiterLockHolder == "free"

\* get_stats is called
StatsStart ==
  /\ st_pc \in {"idle", "done"}
  /\ st_calls < MaxStats
  /\ st_calls' = st_calls + 1
  /\ st_todo' = [i \in 1..Len(rc_list) |-> rc_list[i].number]
  /\ st_sent' = [r \in Recipients |-> NoCount]
  /\ st_idx' = 0
  /\ st_size' = 0
  /\ st_total' = 0
  /\ st_result' = "none"
  /\ st_reads' = {}
  /\ st_pc' = "sent"
  /\ UNCHANGED <<now, cfg_vars, rl_vars, batch_vars, lock, running, sched_vars, req_vars,
                 stop_pc, sent_log, denied_ev, tick_vars, rlu_vars, gw_vars, tw_vars,
                 nz_vars, pe_vars>>

\* 'sent_last_hour': len(rate_limiter.sent_messages.get(number, []))
StatsReadSent ==
  /\ st_pc = "sent"
  /\ st_todo # <<>>
  /\ st_sent' = [st_sent EXCEPT ![Head(st_todo)] = Len(sent_messages[Head(st_todo)])]
  /\ st_todo' = Tail(st_todo)
  /\ st_reads' = st_reads \cup {[of |-> "sent_messages", holder |-> LimiterLockHolder]}
  /\ UNCHANGED <<now, cfg_vars, rl_vars, batch_vars, lock, running, sched_vars, req_vars,
                 stop_pc, sent_log, denied_ev, tick_vars, rlu_vars, gw_vars, tw_vars,
                 nz_vars, pe_vars, st_pc, st_idx, st_size, st_total, st_result, st_calls>>

\* the generator over batcher.pending.values() is created
StatsIterPending ==
  /\ st_pc = "sent"
  /\ st_todo = <<>>
  /\ st_size' = Len(key_order)
  /\ st_idx' = 1
  /\ st_pc' = "pending"
  /\ UNCHANGED <<now, cfg_vars, rl_vars, batch_vars, lock, running, sched_vars, req_vars,
                 stop_pc, sent_log, denied_ev, tick_vars, rlu_vars, gw_vars, tw_vars,
                 nz_vars, pe_vars, st_todo, st_sent, st_total, st_result, st_reads,
                 st_calls>>

\* one step of sum(len(notifications) for notifications in ...): the dict
\* iterator raises RuntimeError when the dict has changed size, returns the
\* sum when it is exhausted, and reads the next list otherwise
StatsReadPending ==
  /\ st_pc = "pending"
  /\ CASE Len(key_order) # st_size ->
            /\ st_result' = "error"
            /\ st_pc' = "done"
            /\ UNCHANGED <<st_idx, st_total, st_reads>>
       [] Len(key_order) = st_size /\ st_idx > st_size ->
            /\ st_result' = "ok"
            /\ st_pc' = "done"
            /\ UNCHANGED <<st_idx, st_total, st_reads>>
       [] OTHER ->
            /\ st_total' = st_total + Len(pending[key_order[st_idx]])
            /\ st_idx' = st_idx + 1
            /\ st_reads' = st_reads \cup {[of |-> "pending", holder |-> lock]}
            /\ UNCHANGED <<st_result, st_pc>>
  /\ UNCHANGED <<now, cfg_vars, rl_vars, batch_vars, lock, running, sched_vars, req_vars,
                 stop_pc, sent_log, denied_ev, tick_vars, rlu_vars, gw_vars, tw_vars,
                 nz_vars, pe_vars, st_todo, st_sent, st_size, st_calls>>

(***************************************************************************)
(* SpecStats: /stats requests next to one webhook thread and the           *)
(* scheduler, batching enabled or disabled, one configured recipient.      *)
(***************************************************************************)
InitStats ==
  /\ InitRelay
  /\ InitRLUnit
  /\ InitGWUnit
  /\ InitTWUnit
  /\ InitNZUnit
  /\ InitSTUnit
  /\ InitPECall
  /\ qh_cfg = QuietHoursCfg(FALSE, TRUE, 0, 0)
  /\ rc_list = <<Recipient("r1", TRUE, CameraList({"all"}))>>
  /\ wl = [events |-> MaxEvents, until |-> MaxTime,
           keys |-> {<<"r1", "c1">>, <<"r1", "c2">>},
           stamps |-> [c \in Cameras |-> {TRUE}], threads |-> {"t1"}]
  /\ batching_enabled \in BOOLEAN
  /\ template_ok = TRUE
  /\ rl_cfg = RateLimitCfg(TRUE, LimHour, LimCam)

NextStats ==
  \/ Advance
  \/ NextAdd
  \/ \E t \in Threads : ImmCanSend(t)
  \/ \E t \in Threads, ok \in BOOLEAN : ImmSendReturn(t, ok)
  \/ \E t \in Threads : ImmRecord(t)
  \/ NextSched
  \/ StatsStart
  \/ StatsReadSent
  \/ StatsIterPending
  \/ StatsReadPending

SpecStats == InitStats /\ [][NextStats]_vars

(***************************************************************************)
(* SpecStop: the batcher with stop() called at any moment, under fair      *)
(* scheduling.  Every thread that can take a step eventually takes it      *)
(* (the operating system runs every runnable thread, every send returns,   *)
(* every lock holder releases), and the clock advances up to the horizon.  *)
(* stop() is called while the clock can still reach the end of the         *)
(* sleep that is running.                                                  *)
(***************************************************************************)
InitStop ==
  /\ InitRelay
  /\ InitPEUnit
  /\ InitRLUnit
  /\ InitGWUnit
  /\ InitTWUnit
  /\ InitNZUnit
  /\ InitSTUnit
  /\ wl = [events |-> MaxEvents, until |-> MaxTime,
           keys |-> {<<"r1", "c1">>, <<"r1", "c2">>},
           stamps |-> [c \in Cameras |-> IF c = "c1" THEN {TRUE} ELSE {FALSE}],
           threads |-> {"t1"}]
  /\ batching_enabled = TRUE
  /\ template_ok = TRUE
  /\ rl_cfg = RateLimitCfg(TRUE, LimHour, LimCam)

\* stop() called while the model's clock has a step left
StopInTime == now < wl.until /\ Stop

NextStop == Advance \/ NextAdd \/ NextSched \/ StopInTime \/ StopJoin

\* the steps that do not wait for the outside world: everything but the
\* arrival of an event and the call of stop()
FairStop ==
  /\ WF_vars(Advance)
  /\ WF_vars(NextSched)
  /\ WF_vars(\E t \in Threads : AddAcquire(t) \/ AddSetFirst(t) \/ AddAppend(t))
  /\ WF_vars(StopJoin)

SpecStop == InitStop /\ [][NextStop]_vars /\ FairStop

(***************************************************************************)
(* SpecLive: the batcher under fair scheduling and an advancing clock,     *)
(* never stopped.  Three events on the two cameras of one recipient; c2    *)
(* posts its own timestamp as a string.  The horizon is long enough for a  *)
(* full batch to be sent on the first tick and for the limiter to admit    *)
(* the same camera again.                                                  *)
(***************************************************************************)
MaxLiveEvents == 3

InitLive ==
  /\ InitRelay
  /\ InitPEUnit
  /\ InitRLUnit
  /\ InitGWUnit
  /\ InitTWUnit
  /\ InitNZUnit
  /\ InitSTUnit
  /\ wl = [events |-> MaxLiveEvents, until |-> MaxBatchTime,
           keys |-> {<<"r1", "c1">>, <<"r1", "c2">>},
           stamps |-> [c \in Cameras |-> IF c = "c1" THEN {TRUE} ELSE {FALSE}],
           threads |-> {"t1"}]
  /\ batching_enabled = TRUE
  /\ template_ok = TRUE
  /\ rl_cfg = RateLimitCfg(TRUE, LimHour, LimCam)

\* the scheduler takes its ticks, the clock advances, a request that entered
\* add_notification finishes it
FairLive ==
  /\ WF_vars(Advance)
  /\ WF_vars(NextSched)
  /\ WF_vars(\E t \in Threads : AddAcquire(t) \/ AddSetFirst(t) \/ AddAppend(t))

SpecLive == InitLive /\ [][NextBatch]_vars /\ FairLive

(***************************************************************************)
(* SpecE2E: one webhook request from the payload to the sender.  A         *)
(* Hikvision camera c1 posts one event (field detection or line crossing,  *)
(* with or without a dateTime of its own); one active recipient r1 with    *)
(* cameras ["all"]; quiet hours enabled with a window inside one day or    *)
(* over midnight, the request arriving at any time of day; batching        *)
(* enabled or disabled; a fresh rate limiter; fair scheduling and an       *)
(* advancing clock.                                                        *)
(***************************************************************************)
HikvisionAlert(eventType, dateTime) ==
  [t |-> "object", ipAddress |-> Str("c1"), eventType |-> eventType, dateTime |-> dateTime]

E2EPayloads ==
  {[BlankPayload EXCEPT !.EventNotificationAlert = HikvisionAlert(e, d)] :
     e \in {Str("fielddetection"), Str("linedetection")},
     d \in {Absent, Str("2024-05-01T10:00:00")}}

InitE2E ==
  /\ InitRelay
  /\ InitSTUnit
  /\ InitRLUnit
  /\ InitGWUnit
  /\ InitTWUnit
  /\ InitNZUnit
  /\ InitPECall
  /\ wl = [events |-> MaxProcess, until |-> MaxTime, keys |-> {<<"r1", "c1">>},
           stamps |-> [c \in Cameras |-> BOOLEAN], threads |-> {PEThread}]
  /\ batching_enabled \in BOOLEAN
  /\ template_ok = TRUE
  /\ rl_cfg = RateLimitCfg(TRUE, LimHour, LimCam)
  /\ qh_cfg \in {QuietHoursCfg(TRUE, TRUE, a, b) : a \in {0, 2}, b \in {0, 2}}
  /\ rc_list = <<Recipient("r1", TRUE, CameraList({"all"}))>>

\* the steps of the request thread between the call of process_event and
\* its return
E2ERequestSteps ==
  \/ \E t \in Clock : PEQuiet(t)
  \/ PEResolve
  \/ PEEnqueue
  \/ PEQueued
  \/ AddAcquire(PEThread)
  \/ AddSetFirst(PEThread)
  \/ AddAppend(PEThread)
  \/ ImmCanSend(PEThread)
  \/ \E ok \in BOOLEAN : ImmSendReturn(PEThread, ok)
  \/ ImmRecord(PEThread)

\* the one request of the scenario
E2EStart(p) == pe_runs = 0 /\ PEStart(p)

NextE2E ==
  \/ Advance
  \/ \E p \in E2EPayloads : E2EStart(p)
  \/ E2ERequestSteps
  \/ NextSched

\* the request thread and the scheduler thread take their steps, the clock
\* advances; whether a request arrives is up to the camera
FairE2E ==
  /\ WF_vars(Advance)
  /\ WF_vars(E2ERequestSteps)
  /\ WF_vars(NextSched)

SpecE2E == InitE2E /\ [][NextE2E]_vars /\ FairE2E

(***************************************************************************)
(* Properties of the batcher (Spec, SpecBatch).                            *)
(***************************************************************************)
IsPrefix(s, t) == Len(s) <= Len(t) /\ SubSeq(t, 1, Len(s)) = s

\* ids of the events of the pending list of k
PendingIds(k) == Range(Ids(pending[k]))

\* ids handed to the sender so far
SentIds == UNION {Range(sent_log[i].ids) : i \in 1..Len(sent_log)}

\* no tick of the scheduler is in progress
TickOver == lock # "sched"

\* a batch that can_send denied is held as it was: its events are a prefix of
\* the pending list (events added since follow them), none twice, none sent,
\* and first_event_time is the one it had
Held(d) ==
  /\ IsPrefix(d.events, pending[d.key])
  /\ Cardinality(PendingIds(d.key)) = Len(pending[d.key])
  /\ first_event_time[d.key] = d.first
  /\ Range(Ids(d.events)) \cap SentIds = {}

SendsOk == Cardinality({i \in 1..Len(sent_log) : sent_log[i].ok})

\* record_sent calls that are about to be made for a send that succeeded
RecordsDue == Cardinality({t \in Threads : req_pc[t] = "imm_record"})
              + (IF sched_pc = "record" THEN 1 ELSE 0)

\* the keys that held events when the tick began and met one of the two
\* flush conditions then
DueAtTickStart ==
  {k \in Keys : /\ tick_start.len[k] > 0
                /\ \/ tick_start.now - tick_start.first[k] >= window_seconds
                   \/ tick_start.len[k] >= max_batch_size}

\* C1: a flush that can_send denies sends and records nothing and leaves the
\* key's pending list and first_event_time as they were, the key goes on
\* accepting events, and the flush is attempted again on the following tick.
C1_DeniedFlushHeldAndRetried ==
  /\ \A d \in tick_denied : Held(d)
  /\ \A d \in prev_denied : d.key \notin tick_attempted => Held(d)
  /\ TickOver => \A d \in prev_denied : d.key \in tick_attempted

\* C2: after an admitted flush whose send returned, success or failure, the
\* key is gone from pending and from first_event_time and none of its events
\* is queued again; record_sent has been called as many times as a send
\* reported success, so a failed send adds no timestamp.
C2_FlushClearsKeyRecordsOnSuccess ==
  /\ (sched_pc = "loop" /\ sched_res # "none") =>
        /\ pending[sched_key] = <<>>
        /\ sched_key \notin Range(key_order)
        /\ first_event_time[sched_key] = NoTime
        /\ \A k \in Keys : PendingIds(k) \cap Range(sent_log[Len(sent_log)].ids) = {}
  /\ RecordsMade + RecordsDue = SendsOk

\* a flush whose send failed has just been cleared and nothing was recorded
C2_Witness ==
  /\ sched_pc = "loop"
  /\ sched_res = "fail"
  /\ sent_log # <<>>
  /\ sent_log[Len(sent_log)].key = sched_key
  /\ ~sent_log[Len(sent_log)].ok
  /\ RecordsMade = 0

\* C3: an event that can_send denied is never dropped, with batching or
\* without: it is still pending or was handed to the sender later.
C3_DeniedEventNeverDropped ==
  \A id \in denied_ev : (\E k \in Keys : id \in PendingIds(k)) \/ id \in SentIds

\* C4: on a tick a key with pending events gets a flush attempt iff
\* now - first_event_time[key] >= window_seconds or it holds max_batch_size
\* events; a key that meets neither condition is not touched.
C4_AttemptedIffDue ==
  TickOver => tick_attempted = DueAtTickStart

C6_NoSendUnderLock ==
  (sched_pc = "send" \/ \E t \in Threads : req_pc[t] = "imm_send") => lock = "free"

(***************************************************************************)
(* Properties of the RateLimiter (SpecRL).                                 *)
(***************************************************************************)
\* record_sent calls for (r, c) whose timestamp lies within the trailing hour
RecordedLastHour(r, c) ==
  Cardinality({i \in 1..Len(recorded[<<r, c>>]) : now - recorded[<<r, c>>][i] < HourLen})

RecipientLastHour(r) == RecordedLastHour(r, "c1") + RecordedLastHour(r, "c2")

RecipientEver(r) == Len(recorded[<<r, "c1">>]) + Len(recorded[<<r, "c2">>])

\* C7: with rate limiting enabled can_send(recipient, camera) returns true
\* iff, counting the record_sent calls of the trailing hour only, the
\* recipient's count is below max_per_hour and the (recipient, camera)
\* count is below max_per_camera_per_hour.
C7_CanSendIffBothUnderCeilings ==
  [][\A r \in Recipients, c \in Cameras :
       (RLCanSend(r, c) /\ rl_cfg.enabled) =>
          ((rl_result'.res = "true") <=>
             (/\ RecipientLastHour(r) < rl_cfg.max_per_hour
              /\ RecordedLastHour(r, c) < rl_cfg.max_per_camera_per_hour))]_vars

\* can_send returned true for a recipient with max_per_hour recorded sends,
\* some of them more than an hour old
C7_Witness ==
  /\ rl_cfg.enabled
  /\ rl_result.res = "true"
  /\ RecipientEver(rl_result.r) >= rl_cfg.max_per_hour
  /\ Len(sent_messages[rl_result.r]) < rl_cfg.max_per_hour
  /\ RecipientLastHour(rl_result.r) < rl_cfg.max_per_hour

(***************************************************************************)
(* Properties of SMSGatewayManager.send_sms (SpecGW).                      *)
(***************************************************************************)
GwSucceeded == \E i \in 1..Len(gw_invoked) : gw_invoked[i].out = "ok"

GwInvokedChannels == {gw_invoked[i].ch : i \in 1..Len(gw_invoked)}

GwFailedChannels == {gw_invoked[i].ch : i \in {j \in 1..Len(gw_invoked) : gw_invoked[j].out # "ok"}}

GwDirectChannels == {gw_gateways[i].role : i \in 1..Len(gw_gateways)}

\* C8: the direct gateways are invoked in configured order, primary before
\* fallback, the email gateway after them; each channel is invoked at most
\* once in a call; no channel is invoked after one that reported success;
\* when a channel succeeded the call returns true.
C8_OrderedShortCircuit ==
  /\ \A i \in 1..Len(gw_invoked) :
        /\ i <= Len(gw_gateways) => gw_invoked[i].ch = gw_gateways[i].role
        /\ i > Len(gw_gateways) => gw_invoked[i].ch = "email" /\ i = Len(gw_invoked)
  /\ \A i, j \in 1..Len(gw_invoked) :
        /\ i < j => ~(gw_invoked[i].ch = "fallback" /\ gw_invoked[j].ch = "primary")
        /\ i # j => gw_invoked[i].ch # gw_invoked[j].ch
        /\ i < j => gw_invoked[i].out # "ok"
  /\ (gw_pc = "done" /\ GwSucceeded) => gw_result = "true"

\* the primary gateway failed, the fallback succeeded, and the email gateway,
\* configured and given a carrier, was not invoked
C8_Witness ==
  /\ gw_pc = "done"
  /\ gw_invoked = <<[ch |-> "primary", out |-> "fail"], [ch |-> "fallback", out |-> "ok"]>>
  /\ gw_result = "true"
  /\ gw_email
  /\ gw_carrier

\* C9 as claimed: send_sms returns true iff a channel it invoked reported
\* success, and returns false only after every configured channel, each
\* direct gateway and the email gateway when configured, was attempted and
\* failed.
C9_FalseOnlyAfterAllConfigured ==
  gw_pc = "done" =>
    /\ (gw_result = "true") <=> GwSucceeded
    /\ gw_result = "false" =>
         /\ GwDirectChannels \subseteq GwFailedChannels
         /\ gw_email => "email" \in GwFailedChannels

\* C9 amended: send_sms returns true iff a channel it invoked reported
\* success, and returns false only after every direct gateway was attempted
\* and failed and, when the email gateway is configured and a carrier was
\* given, the email gateway was attempted and failed; without a carrier the
\* email gateway is not attempted.
C9_FalseOnlyAfterAllAttemptable ==
  gw_pc = "done" =>
    /\ (gw_result = "true") <=> GwSucceeded
    /\ gw_result \in {"true", "false"}
    /\ gw_result = "false" =>
         /\ GwDirectChannels \subseteq GwFailedChannels
         /\ (gw_email /\ gw_carrier) => "email" \in GwFailedChannels
         /\ ~gw_carrier => "email" \notin GwInvokedChannels

\* both direct gateways failed, the email gateway is configured, no carrier
\* was given: false is returned and the email gateway was not attempted
C9_Witness ==
  /\ gw_pc = "done"
  /\ gw_result = "false"
  /\ Len(gw_gateways) = 2
  /\ Len(gw_invoked) = 2
  /\ gw_email
  /\ ~gw_carrier

\* C10: an exception of a channel is caught in send_sms and counts as that
\* channel's failure: send_sms never raises, and after an exception the
\* remaining channels are still tried, so a call that ends without a success
\* has tried every direct gateway and, given a carrier, the email gateway.
C10_ChannelExceptionCaught ==
  /\ gw_result \in {"none", "true", "false"}
  /\ gw_pc = "direct" => gw_idx = Len(gw_invoked) + 1
  /\ (gw_pc = "done" /\ ~GwSucceeded) =>
        /\ gw_result = "false"
        /\ Len(gw_invoked) = Len(gw_gateways) + (IF gw_email /\ gw_carrier THEN 1 ELSE 0)

\* the primary gateway raised, the fallback raised, the email gateway raised,
\* and send_sms returned false
C10_Witness ==
  /\ gw_pc = "done"
  /\ gw_invoked = <<[ch |-> "primary", out |-> "raise"], [ch |-> "fallback", out |-> "raise"],
                    [ch |-> "email", out |-> "raise"]>>
  /\ gw_result = "false"

\* C11: once send_sms has returned, the email gateway was attempted iff it is
\* configured and the caller gave a carrier, whether the direct gateways
\* failed or succeeded; without a carrier it was not attempted.
C11_EmailAttemptedIffCarrier ==
  gw_pc = "done" => (("email" \in GwInvokedChannels) <=> (gw_email /\ gw_carrier))

(***************************************************************************)
(* Properties of TwilioSender.send_sms (SpecTW).                           *)
(***************************************************************************)
TwCreates == {i \in 1..Len(tw_trace) : tw_trace[i].op = "create"}

TwLast == IF tw_trace = <<>> THEN NoTrace ELSE tw_trace[Len(tw_trace)]

\* C12: a send_sms call makes at most retry_attempts messages.create calls;
\* nothing follows a success or an error of code 20003 or 21211, no attempt
\* and no delay; any other error is followed by a delay and another attempt
\* while attempts remain; delays occur only between two attempts, never
\* after the last; the call returns true iff its last attempt succeeded and
\* returns false without a permanent error only after retry_attempts
\* attempts.
C12_BoundedRetry ==
  /\ Cardinality(TwCreates) <= tw_retry
  /\ \A i \in 1..Len(tw_trace) :
        /\ i < Len(tw_trace) =>
              /\ tw_trace[i].out \notin {"ok", "auth", "invalid"}
              /\ tw_trace[i].op # tw_trace[i + 1].op
        /\ tw_trace[i].op = "sleep" => i > 1
  /\ TwLast.op = "sleep" => tw_pc = "loop" /\ tw_attempt < tw_retry
  /\ tw_pc = "done" =>
        /\ tw_result \in {"true", "false"}
        /\ (tw_result = "true") <=> (TwLast.out = "ok")
        /\ (tw_client /\ TwLast.out \notin {"ok", "auth", "invalid"}) =>
              Cardinality(TwCreates) = tw_retry

\* three attempts failed with transient errors, a delay between them and
\* none after the third, and the call returned false
C12_Witness ==
  /\ tw_pc = "done"
  /\ tw_result = "false"
  /\ tw_retry = 3
  /\ Len(tw_trace) = 5
  /\ \A i \in {1, 3, 5} : tw_trace[i].op = "create"
  /\ \A i \in {2, 4} : tw_trace[i].op = "sleep"

(***************************************************************************)
(* Message length on the two paths to the Twilio API.                      *)
(***************************************************************************)
\* C13: every body handed to messages.create has at most 1600 characters,
\* by TwilioSender.send_sms and by TwilioGateway.send_sms.
C13_BodyWithinLimit ==
  /\ \A i \in TwCreates : tw_trace[i].body <= BodyLimit
  /\ \A b \in gw_bodies : b <= BodyLimit

(***************************************************************************)
(* Properties of _normalize_event (SpecNZ).                                *)
(***************************************************************************)
\* C14: _normalize_event returns a canonical event for every payload and
\* never raises.
C14_NormalizeNeverRaises ==
  nz_pc = "done" => nz_event.status = "ok"

\* C15: the event returned for a payload has a non-empty camera_id and a
\* priority that is normal or high, whatever the payload carries in its
\* camera and priority fields.
C15_CameraIdAndPriorityWellFormed ==
  (nz_pc = "done" /\ nz_event.status = "ok") =>
    /\ nz_event.camera_id.t = "str"
    /\ nz_event.camera_id.s # ""
    /\ nz_event.priority \in {Str("normal"), Str("high")}

\* the dialect of a payload in the order of the claim: the wrapper key, then
\* Action equal to "Pulse", then the 'camera' field, then generic
FirstMatch(p) ==
  CASE p.EventNotificationAlert # Absent -> "hikvision"
    [] p.EventNotificationAlert = Absent /\ p.Action = Str("Pulse") -> "dahua"
    [] p.EventNotificationAlert = Absent /\ p.Action # Str("Pulse")
         /\ p.camera # Absent -> "blueiris"
    [] OTHER -> "generic"

\* the payload without the fields that belong to the dialects after its own
WithoutLaterDialects(p) ==
  LET noGeneric == [p EXCEPT !.camera_id = Absent, !.id = Absent, !.event_type = Absent,
                             !.type = Absent, !.timestamp = Absent]
      noBlueIris == [noGeneric EXCEPT !.camera = Absent, !.trigger = Absent,
                                      !.priority = Absent]
      noDahua == [noBlueIris EXCEPT !.Action = Absent, !.SerialID = Absent,
                                    !.DeviceID = Absent, !.Code = Absent]
  IN CASE FirstMatch(p) = "hikvision" -> noDahua
       [] FirstMatch(p) = "dahua" -> noBlueIris
       [] FirstMatch(p) = "blueiris" -> noGeneric
       [] OTHER -> p

\* C16: a payload is normalized by the branch of the first dialect it
\* matches, in the order wrapper key, Action == "Pulse", 'camera', generic,
\* and the outcome (camera_id, event_type, priority, or the exception) is
\* the one of the same payload without the fields of the later dialects.
C16_FirstMatchWins ==
  nz_pc = "done" =>
    /\ nz_event.status = "ok" => nz_event.dialect = FirstMatch(nz_payload)
    /\ nz_event = NormalizeEvent(WithoutLaterDialects(nz_payload))

\* a payload with Action == "Pulse", a 'camera' field and generic fields was
\* normalized by the Dahua branch
C16_Witness ==
  /\ nz_pc = "done"
  /\ nz_payload.EventNotificationAlert = Absent
  /\ nz_payload.Action = Str("Pulse")
  /\ nz_payload.SerialID = Str("SN1")
  /\ nz_payload.Code = Str("AlarmLocal")
  /\ nz_payload.camera = Str("c1")
  /\ nz_payload.priority = Str("urgent")
  /\ nz_payload.camera_id = Str("c2")
  /\ nz_event.status = "ok"
  /\ nz_event.camera_id = Str("SN1")
  /\ nz_event.event_type = Str("Local alarm")
  /\ nz_event.priority = Str("high")

(***************************************************************************)
(* Properties of process_event (SpecPE).                                   *)
(***************************************************************************)
\* C17: the quiet-hours test returns false whenever quiet hours are
\* disabled; with start > end it returns true iff now >= start or
\* now <= end, and otherwise true iff start <= now <= end, for every time
\* of day including the instants start and end.
C17_QuietWindowTest ==
  /\ (pe_quiet # "none" /\ ~qh_cfg.enabled) => pe_quiet = "false"
  /\ (pe_quiet \in {"true", "false"} /\ qh_cfg.enabled /\ qh_cfg.start > qh_cfg.end) =>
       (pe_quiet = "true" <=> (pe_tod >= qh_cfg.start \/ pe_tod <= qh_cfg.end))
  /\ (pe_quiet \in {"true", "false"} /\ qh_cfg.enabled /\ qh_cfg.start <= qh_cfg.end) =>
       (pe_quiet = "true" <=> (qh_cfg.start <= pe_tod /\ pe_tod <= qh_cfg.end))

\* a window that wraps midnight was tested at its instant 'end' and
\* answered true
C17_Witness ==
  /\ qh_cfg.enabled
  /\ qh_cfg.wellformed
  /\ qh_cfg.start > qh_cfg.end
  /\ qh_cfg.end > 0
  /\ pe_tod = qh_cfg.end
  /\ pe_quiet = "true"

\* the time of day read by the current call lies in the configured window
InWindow ==
  /\ pe_tod # NoTod
  /\ qh_cfg.enabled
  /\ qh_cfg.wellformed
  /\ QuietWindow(qh_cfg.start, qh_cfg.end, pe_tod)

\* the quiet-hours step of the current call neither suppressed nor raised
PastQuiet == pe_stage \in {"resolve", "enqueue"} \/ (pe_stage = "quiet" /\ pe_pc = "resolve")

HighPriority == nz_event.status = "ok" /\ nz_event.priority = Str("high")
NormalPriority == nz_event.status = "ok" /\ nz_event.priority = Str("normal")

\* a normal-priority event inside the window is enqueued for no recipient
\* and the call returns success with the quiet-hours message
NormalSuppressedInWindow ==
  (pe_stage # "normalize" /\ NormalPriority /\ InWindow) =>
    /\ pe_pc = "done"
    /\ pe_stage = "quiet"
    /\ pe_calls = <<>>
    /\ pe_result = PESuccess("Quiet hours", 0)

Faulted ==
  \/ pe_stage # "idle" /\ nz_event = Raised
  \/ pe_quiet = "raise"
  \/ pe_stage = "resolve" /\ GetRecipientsForCamera(rc_list, nz_event.camera_id.s).raised
  \/ pe_fault = "enqueue"

\* C19: process_event never lets a fault escape to its caller: an exception
\* raised during normalization, the quiet-hours check, recipient resolution
\* or enqueueing is caught and returned as a result with success = false
\* and an error message.
C19_NoFaultEscapes ==
  /\ pe_result.kind \in {"none", "success", "failure"}
  /\ pe_pc = "done" => pe_result.kind \in {"success", "failure"}
  /\ req_pc[PEThread] = "raised" => pe_pc = "enqueue"
  /\ Faulted => (pe_pc = "done" /\ pe_result = PEExcept(pe_fault) /\ pe_fault = pe_stage)
  /\ (pe_pc = "done" /\ pe_result.kind = "failure") => Faulted

\* the first add_notification call of a loop over two recipients raised
\* and the call returned a failure result
C19_Witness ==
  /\ pe_pc = "done"
  /\ pe_fault = "enqueue"
  /\ Len(pe_recipients) = 2
  /\ Len(pe_calls) = 1
  /\ pe_result.kind = "failure"

\* occurrences of x in a sequence
CountIn(seq, x) == Cardinality({i \in 1..Len(seq) : seq[i] = x})

\* entries of the configured recipients with number r that are active and
\* whose cameras list contains "all" or the camera of the current event
MatchingEntries(r) ==
  {i \in 1..Len(rc_list) :
     /\ rc_list[i].number = r
     /\ rc_list[i].active
     /\ rc_list[i].cameras.list
     /\ ("all" \in rc_list[i].cameras.ids \/ nz_event.camera_id.s \in rc_list[i].cameras.ids)}

\* the current call has returned and its event was normalized and not
\* suppressed
ReturnedNotSuppressed == pe_pc = "done" /\ pe_stage \in {"resolve", "enqueue"}

\* one add_notification call per matching recipient and no other, the
\* count of the message is the number of calls, and without a match there
\* is no call and the no-recipients message
CallsMatchRecipients ==
  /\ \A r \in Recipients : CountIn(pe_calls, r) = Cardinality(MatchingEntries(r))
  /\ IF \A r \in Recipients : MatchingEntries(r) = {}
     THEN pe_calls = <<>> /\ pe_result = PESuccess("No recipients", 0)
     ELSE pe_result = PESuccess("Notifications queued", Len(pe_calls))
  /\ batching_enabled =>
       \A r \in Recipients :
         Cardinality({i \in 1..Len(pending[<<r, nz_event.camera_id.s>>]) :
                        pending[<<r, nz_event.camera_id.s>>][i].id > next_id - 1 - Len(pe_calls)})
           = Cardinality(MatchingEntries(r))

Min(a, b) == IF a < b THEN a ELSE b

\* the message of a send is the one the claim describes for its events
MessageAsSpecified(e) ==
  LET n == Len(e.ids) IN
  IF n = 1 THEN e.msg.form = "single" /\ e.msg.lines = <<e.ids[1]>>
  ELSE /\ e.msg.form = "batch"
       /\ e.msg.count = n
       /\ Len(e.msg.lines) = Min(n, 3)
       /\ \A i \in 1..Min(n, 3) : e.msg.lines[i] = e.ids[n - Min(n, 3) + i]

\* C26: for a batch of n >= 2 events the formatted message has one header
\* carrying the count n followed by exactly min(n, 3) event lines, the most
\* recently enqueued events in their enqueue order; for n = 1 the
\* single-event template is used.
C26_BatchMessageShape ==
  \A i \in 1..Len(sent_log) : MessageAsSpecified(sent_log[i])

\* a batch of four events was sent with the last three of them listed
C26_Witness ==
  \E i \in 1..Len(sent_log) :
    /\ Len(sent_log[i].ids) = 4
    /\ sent_log[i].msg.count = 4
    /\ sent_log[i].msg.lines = SubSeq(sent_log[i].ids, 2, 4)

\* one step sets first_event_time[k]: the key has no pending event and the
\* value is the time of the step
FirstEventSet(k) ==
  /\ first_event_time[k] = NoTime
  /\ first_event_time'[k] = now
  /\ pending[k] = <<>>

\* one step removes first_event_time[k]: the end of a flush of k whose
\* batch went to the sender
FirstEventRemoved(k) ==
  /\ first_event_time'[k] = NoTime
  /\ sched_key = k
  /\ sched_res \in {"ok", "fail"}
  /\ pending[k] = <<>>

\* C27: first_event_time[key] is set only when the key's pending list goes
\* from empty to non-empty and is changed neither by later add_notification
\* calls nor by rate-denied flush attempts: it keeps its value until the
\* flush that sent the batch removes it.
C27_FirstEventTimeFixedPerBatch ==
  [][\A k \in Keys :
       first_event_time'[k] # first_event_time[k] => (FirstEventSet(k) \/ FirstEventRemoved(k))]_vars

\* a batch that got a second event after its first and was denied by the
\* limiter still carries the time of its first event
C27_Witness ==
  \E d \in tick_denied :
    /\ Len(d.events) >= 2
    /\ first_event_time[d.key] = d.first
    /\ d.first < now
    /\ Len(pending[d.key]) > Len(d.events)

\* ids of the events add_notification has appended to a pending list
AcceptedIds ==
  (1..(next_id - 1)) \ {req_event[t].id : t \in {u \in Threads : req_pc[u] # "idle"}}

\* the flushes that reached the sender with event id in their list
FlushesWith(id) == {i \in 1..Len(sent_log) : id \in Range(sent_log[i].ids)}

\* C29: with batching enabled, every event accepted by add_notification is
\* in the event list of exactly one flush that reached the sender, or is
\* still pending; an event leaves pending only as part of the batch that
\* was formatted and sent in the same flush, and is in no two flushes.
C29_EachEventInOneFlush ==
  batching_enabled =>
    \A id \in AcceptedIds :
      /\ Cardinality(FlushesWith(id)) <= 1
      /\ (\E k \in Keys : id \in PendingIds(k)) \/ FlushesWith(id) # {}
      /\ ((\E k \in Keys : id \in PendingIds(k)) /\ FlushesWith(id) # {}) =>
           (sched_pc \in {"record", "clear"} /\ id \in PendingIds(sched_key))

\* a key was flushed twice and holds a newer event again
C29_Witness ==
  /\ batching_enabled
  /\ \E i, j \in 1..Len(sent_log) :
       /\ i < j
       /\ sent_log[i].key = sent_log[j].key
       /\ pending[sent_log[i].key] # <<>>
       /\ lock = "free"

\* C30: a failure raised while formatting or sending one key's batch does
\* not stop the background scheduler: the thread is never ended by it, so
\* the batches of other keys are still flushed and the ticks go on.
C30_FailureDoesNotStopScheduler == sched_pc # "dead"

(***************************************************************************)
(* Properties of the rate limiter under concurrency (SpecConc).            *)
(***************************************************************************)
\* record_sent calls for (r, c) in the hour that ends at time t
RecordedInHourTo(r, c, t) ==
  Cardinality({i \in 1..Len(recorded[<<r, c>>]) :
                 recorded[<<r, c>>][i] <= t /\ t - recorded[<<r, c>>][i] < HourLen})

\* C28: with rate limiting enabled, under every interleaving of concurrent
\* webhook requests and scheduler ticks, batching enabled or disabled, the
\* sends recorded for a recipient within any trailing hour never exceed
\* max_per_hour and those recorded for a (recipient, camera) pair never
\* exceed max_per_camera_per_hour.
C28_RecordedWithinCeilings ==
  rl_cfg.enabled =>
    \A r \in Recipients, t \in 0..now :
      /\ RecordedInHourTo(r, "c1", t) + RecordedInHourTo(r, "c2", t) <= rl_cfg.max_per_hour
      /\ \A c \in Cameras : RecordedInHourTo(r, c, t) <= rl_cfg.max_per_camera_per_hour

(***************************************************************************)
(* Properties of get_stats and of the readers of shared state (SpecStats). *)
(***************************************************************************)
\* positions at which the scheduler reads or writes pending
SchedInTick == sched_pc \in {"loop", "can_send", "send", "record", "clear", "clear_first"}

\* the batcher's own readers hold the batcher lock
BatcherReadsUnderLock ==
  /\ SchedInTick => lock = "sched"
  /\ \A t \in Threads : req_pc[t] \in {"set_first", "append"} => lock = t

\* C23: every read of the rate-window counters and of the pending batches,
\* the reads of stats reporting included, happens while the reader holds
\* the lock that guards the writes to that structure.
C23_ReadsUnderOwningLock ==
  /\ BatcherReadsUnderLock
  /\ \A rd \in st_reads : rd.holder = "stats"

\* the step in which can_send of the flush or of the immediate send counts
\* the window of recipient r
CanSendCounts(r) ==
  \/ sched_pc = "can_send" /\ sched_pc' # "can_send" /\ sched_key[1] = r
  \/ \E t \in Threads :
       req_pc[t] = "imm_can_send" /\ req_pc'[t] # "imm_can_send" /\ req_key[t][1] = r

\* the step in which get_stats reports recipient r
StatsReports(r) ==
  st_pc = "sent" /\ st_todo # <<>> /\ Head(st_todo) = r /\ st_todo' = Tail(st_todo)

\* C24: whenever the rate-window state is observed, by can_send or by
\* stats reporting, every timestamp counted is within one hour of now: the
\* sent-in-last-hour count reported by stats equals the number of sends
\* recorded for that recipient during the trailing hour.
C24_ObservedCountsAreTrailingHour ==
  [][\A r \in Recipients :
       /\ CanSendCounts(r) =>
            /\ Len(sent_messages'[r]) = RecipientLastHour(r)
            /\ \A i \in 1..Len(sent_messages'[r]) : now - sent_messages'[r][i] < HourLen
       /\ StatsReports(r) => st_sent'[r] = RecipientLastHour(r)]_vars

(***************************************************************************)
(* Properties of stop() (SpecStop).                                        *)
(***************************************************************************)
\* C25: after stop() clears the running flag the scheduler loop terminates
\* and stop() returns; a tick that ends with the flag cleared is the last
\* one, and a send that is in flight is not interrupted: it returns and its
\* batch is recorded or cleared as usual.
C25_StopTerminates ==
  /\ (stop_pc = "join") ~> (stop_pc = "done")
  /\ [][/\ (~running /\ sched_pc = "loop" /\ sched_pc' \notin {"loop", "can_send"}) =>
             sched_pc' = "exited"
        /\ (sched_pc = "send" /\ sched_pc' # "send") => sched_pc' \in {"record", "clear"}
        /\ (stop_pc' = "done" /\ stop_pc # "done") => sched_pc \in {"exited", "dead"}]_vars

\* stop() has returned after the loop left through the flag; a batch was
\* sent before the exit and another one is still pending
C25_Witness ==
  /\ stop_pc = "done"
  /\ sched_pc = "exited"
  /\ ~running
  /\ sent_log # <<>>
  /\ \E k \in Keys : pending[k] # <<>>

(***************************************************************************)
(* Progress of pending batches (SpecLive).                                 *)
(***************************************************************************)
\* the scheduler is alive and asleep, and its next tick lies beyond the
\* modelled clock
BeyondHorizon == sched_pc = "sleep" /\ sched_wake > wl.until

\* the modelled clock ends before key k can be flushed: on its last tick
\* the scheduler found k empty or not yet due, or it called _send_batch(k)
\* (and the limiter held the batch back, or events arrived after the flush)
HeldAtHorizon(k) ==
  /\ BeyondHorizon
  /\ \/ tick_start.len[k] = 0
     \/ /\ tick_start.now - tick_start.first[k] < window_seconds
        /\ tick_start.len[k] < max_batch_size
     \/ k \in tick_attempted

\* C22: under fair ticks and an advancing clock no pending batch stays
\* pending for ever: every key that holds events becomes empty again, the
\* batches that the end of the modelled clock cuts off excepted
C22_NoBatchPendingForever ==
  \A k \in {<<"r1", "c1">>, <<"r1", "c2">>} : (pending[k] # <<>>) ~> (pending[k] = <<>> \/ HeldAtHorizon(k))

(***************************************************************************)
(* One Hikvision event from the webhook to the sender (SpecE2E).           *)
(***************************************************************************)
\* process_event was called with a Hikvision field-detection payload
FieldDetection ==
  /\ nz_pc = "done"
  /\ nz_payload.EventNotificationAlert.t = "object"
  /\ nz_payload.EventNotificationAlert.eventType = Str("fielddetection")

\* ... and the request arrived inside the quiet window
FieldDetectionInQuietHours == FieldDetection /\ pe_quiet = "true"

\* the sender was called once, with the event of the request for (r1, c1)
OneDeliveryAttempt ==
  /\ Len(sent_log) = 1
  /\ sent_log[1].key = <<"r1", "c1">>
  /\ sent_log[1].ids = <<1>>

\* C21: a Hikvision payload with eventType "fielddetection" is normalized to
\* priority high; routed to one active recipient with cameras ["all"] during
\* quiet hours it is not suppressed, the sender is never called more than
\* once, and it is called once for the event (unless the modelled clock ends
\* before the batch window does)
C21_FieldDetectionDeliveredOnce ==
  /\ [](FieldDetection => nz_event.priority = Str("high"))
  /\ [](FieldDetectionInQuietHours =>
          /\ pe_result # PESuccess("Quiet hours", 0)
          /\ pe_fault = "none"
          /\ Len(sent_log) <= 1)
  /\ FieldDetectionInQuietHours ~>
        (OneDeliveryAttempt \/ (batching_enabled /\ HeldAtHorizon(<<"r1", "c1">>)))

\* the field-detection event, posted with a dateTime of its own inside the
\* quiet window, went through the batch and was handed to the sender by the
\* scheduler
C21_Witness ==
  /\ FieldDetectionInQuietHours
  /\ nz_event.timestamp # Instant
  /\ pe_result = PESuccess("Notifications queued", 1)
  /\ OneDeliveryAttempt
  /\ sent_log[1].by = "sched"
  /\ pending[<<"r1", "c1">>] = <<>>

(***************************************************************************)
(* Rate budget of a flush (SpecBatch).                                     *)
(***************************************************************************)
\* the scheduler's record_sent call of the flush of sched_key takes place
FlushRecords == sched_pc = "record" /\ sched_pc' # "record"

\* C31: a successfully sent batch consumes one unit of rate budget whatever
\* its size: the successful send is followed by exactly one record_sent,
\* which appends one timestamp to the recipient's list and one to the
\* (recipient, camera) list and leaves every other list alone, and no other
\* step of the flush lengthens any list
C31_OneUnitPerSuccessfulFlush ==
  [][/\ (sched_pc = "send" /\ sched_pc' # "send") => (sched_pc' = "record" <=> sched_res' = "ok")
     /\ FlushRecords =>
          /\ sched_pc' = "clear"
          /\ sent_messages' = [sent_messages EXCEPT ![sched_key[1]] = Append(@, now)]
          /\ camera_messages' = [camera_messages EXCEPT ![sched_key] = Append(@, now)]
     /\ ~FlushRecords =>
          /\ \A r \in Recipients : Len(sent_messages'[r]) <= Len(sent_messages[r])
          /\ \A k \in Keys : Len(camera_messages'[k]) <= Len(camera_messages[k])]_vars

\* a batch of two events was sent successfully and has just been recorded:
\* one entry for the recipient and one for the camera, while the other
\* camera of the recipient holds events and has no entry
C31_Witness ==
  /\ sched_pc = "clear"
  /\ sched_res = "ok"
  /\ Len(pending[sched_key]) >= 2
  /\ sent_messages[sched_key[1]] = <<now>>
  /\ camera_messages[sched_key] = <<now>>
  /\ \E k \in Keys : k # sched_key /\ k[1] = sched_key[1] /\ pending[k] # <<>>
                      /\ camera_messages[k] = <<>>

(***************************************************************************)
(* Flushes after stop() (SpecStop).                                        *)
(***************************************************************************)
\* the loop body calls _send_batch(key) for a key that holds a due batch
FlushStarts == sched_pc = "loop" /\ sched_pc' = "can_send"

\* C32: once stop() has cleared the running flag the scheduler starts no
\* new flush: the background loop calls _send_batch for no batch, and so
\* formats, sends and clears none, except the flush that was under way
\* when the flag was cleared
C32_NoFlushStartsAfterStop ==
  [][~running => ~FlushStarts]_vars

====
